---- MODULE Spec2Model ----
(***************************************************************************)
(* Model of the match page of windrun (src/src/pages/Match.tsx): the       *)
(* ownership repair fixHeroSwaps, the DraftReplay step pointer and the     *)
(* views DraftReplay derives from it.                                      *)
(*                                                                         *)
(* Numbers: win rates are in permille (0.5 is 500); a synergy is kept      *)
(* doubled, 2*wr_pair - (wr_a + wr_b), so that no half appears.            *)
(* Optional values (undefined, null, NaN) are sequences of length 0 or 1.  *)
(***************************************************************************)
EXTENDS Integers, Sequences, FiniteSets, TLC

VARIABLES
    matchData,      \* the match payload: radiant, dire, picks, ignoredSpells
    phase,          \* "loaded" | "fixing" | "replay"
    fixedPlayers,   \* fixHeroSwaps: the local array fixedPlayers
    fixI,           \* fixHeroSwaps: the loop index i (1-based here)
    fixedRadiant,   \* result of fixHeroSwaps, DraftReplay's radiantPlayers
    fixedDire,      \* result of fixHeroSwaps, DraftReplay's direPlayers
    currentPick,    \* DraftReplay: useState(0)
    aggregateSortColumn,    \* DraftReplay: useState('default')
    aggregateSortDirection, \* DraftReplay: useState('asc')
    synergyInput,   \* a call of calculateAbilitySynergy: its arguments
    synergyOutput   \* a call of calculateAbilitySynergy: "pending", then the result

\* the sort state of the aggregate table
aggregateSort == <<aggregateSortColumn, aggregateSortDirection>>

\* the frame of a call of calculateAbilitySynergy
synergyCall == <<synergyInput, synergyOutput>>

vars == <<matchData, phase, fixedPlayers, fixI, fixedRadiant, fixedDire, currentPick,
          aggregateSort, synergyCall>>

(***************************************************************************)
(* Bounds of the model                                                     *)
(***************************************************************************)
\* how many players' ability lists the upstream corruption may permute
MaxCorrupt == 4
\* how far outside 0..N a seek value may lie
MaxSeekOvershoot == 1
\* how many abilities a call of calculateAbilitySynergy is given
MaxSynergyAbilities == 3

(***************************************************************************)
(* Program constants                                                       *)
(***************************************************************************)
TeamSize == 5
MinPairPicks == 10
TopListLength == 10
DefaultWinrate == 500

(***************************************************************************)
(* JavaScript helpers                                                      *)
(***************************************************************************)
Max(a, b) == IF a >= b THEN a ELSE b
Min(a, b) == IF a <= b THEN a ELSE b
Abs(a) == IF a < 0 THEN 0 - a ELSE a

\* the % of JavaScript: the result has the sign of the dividend
JsRem(a, n) == IF a >= 0 THEN a % n ELSE 0 - ((0 - a) % n)

\* Array.prototype.slice(0, end)
SliceTo(s, end) ==
    LET e == IF end < 0 THEN Max(Len(s) + end, 0) ELSE Min(end, Len(s))
    IN  SubSeq(s, 1, e)

\* Array.prototype.slice(start) for start >= 0 (0-based start)
SliceFrom(s, start) == SubSeq(s, Min(start, Len(s)) + 1, Len(s))

Range(s) == {s[k] : k \in 1..Len(s)}

\* Array.prototype.sort with the comparator (a, b) => key(b) - key(a):
\* descending by key, stable.  keys[k] is the key of s[k].
SortDescBy(s, keys) ==
    LET seq == s \o <<>>
        n == Len(seq)
        key == keys \o <<>>
        pos(i) == 1 + Cardinality({j \in 1..n : key[j] > key[i]})
                    + Cardinality({j \in 1..(i - 1) : key[j] = key[i]})
    IN  [p \in 1..n |-> seq[CHOOSE i \in 1..n : pos(i) = p]]

\* Array.prototype.sort with the comparator (a, b) => key(a) - key(b)
SortAscBy(s, keys) ==
    LET seq == s \o <<>>
        n == Len(seq)
        key == keys \o <<>>
        pos(i) == 1 + Cardinality({j \in 1..n : key[j] < key[i]})
                    + Cardinality({j \in 1..(i - 1) : key[j] = key[i]})
    IN  [p \in 1..n |-> seq[CHOOSE i \in 1..n : pos(i) = p]]

(***************************************************************************)
(* Static lookup data (src/data, generated by scripts/update-static-data)  *)
(***************************************************************************)
Players == 1..(2 * TeamSize)

\* the abilities the ten players really drafted, in the order of their final
\* list: two spells around an ultimate and the hero innate
BaseAbilities(i) == <<10 * i + 1, 10 * i + 4, 0 - i, 10 * i + 2, 10 * i + 3>>

\* spells that were offered and never drafted
IgnoredSpellIds == <<111, 112, 114, 205>>

KnownAbilityIds ==
    {a \in 11..114 : (a % 10) \in 1..4} \ {113}

\* getAbilityById: <<>> is undefined
getAbilityById(id) ==
    IF id \in KnownAbilityIds
    THEN <<[valveId |-> id,
            isUltimate |-> (id % 10 = 4),
            ownerHeroId |-> id \div 10,
            hasScepter |-> (id % 10 \in {1, 4}),
            hasShard |-> (id % 10 \in {2, 4})]>>
    ELSE <<>>

(***************************************************************************)
(* The match payloads the model draws from                                 *)
(***************************************************************************)
CorruptSet == 4..(3 + MaxCorrupt)

Identity == [i \in Players |-> i]

\* every permutation of the ability lists of the players in CorruptSet
AllCases ==
    {[i \in Players |-> IF i \in CorruptSet THEN p[i] ELSE i] :
        p \in Permutations(CorruptSet)}

\* no corruption, one swap across the two sides, a cycle of four players
ReplayCases ==
    {Identity,
     [i \in Players |-> IF i = 5 THEN 6 ELSE IF i = 6 THEN 5 ELSE i],
     [i \in Players |-> IF i = 4 THEN 7 ELSE IF i = 5 THEN 6
                        ELSE IF i = 6 THEN 4 ELSE IF i = 7 THEN 5 ELSE i]}

Anomalies == {"none", "foreignInnate", "noInnate"}

\* the final list the API reports for the player whose own list is list j
ReportedAbilities(j, anomaly) ==
    IF j = 5 /\ anomaly = "foreignInnate"
    THEN [k \in 1..Len(BaseAbilities(j)) |->
            IF BaseAbilities(j)[k] < 0 THEN 0 - 99 ELSE BaseAbilities(j)[k]]
    ELSE IF j = 5 /\ anomaly = "noInnate"
    THEN SelectSeq(BaseAbilities(j), LAMBDA a : a > 0)
    ELSE BaseAbilities(j)

\* getPickingInfo's protocol as the draft that produced the picks: pick k is
\* made by the player on seat (team, playerPos), who takes the abilities of
\* the own list in list order
DraftedBy(k) ==
    LET pickIndex == k - 1
        posInPhase == pickIndex % 10
        seat == IF (pickIndex \div 10) % 2 = 0
                THEN posInPhase \div 2 ELSE 4 - (posInPhase \div 2)
        radiantTurn == IF (pickIndex \div 10) % 2 = 0
                       THEN posInPhase % 2 = 0 ELSE posInPhase % 2 = 1
    IN  IF radiantTurn THEN seat + 1 ELSE seat + 1 + TeamSize

DraftSequence ==
    [k \in 1..(2 * TeamSize * 5) |->
        BaseAbilities(DraftedBy(k))[((k - 1) \div (2 * TeamSize)) + 1]]

PickVariants == {"sorted", "reversed", "absent"}

PicksOf(variant) ==
    LET full == [k \in 1..Len(DraftSequence) |->
                    [abilityId |-> DraftSequence[k], pickOrder |-> k]]
        kept == SelectSeq(DraftSequence, LAMBDA a : a \notin Range(BaseAbilities(3)))
    IN  IF variant = "sorted" THEN full
        ELSE IF variant = "reversed"
        THEN [k \in 1..Len(full) |-> full[Len(full) + 1 - k]]
        ELSE [k \in 1..Len(kept) |-> [abilityId |-> kept[k], pickOrder |-> k]]

MakeMatch(c, anomaly, variant) ==
    LET player(i) == [hero |-> i, abilities |-> ReportedAbilities(c[i], anomaly)]
    IN  [radiant |-> [i \in 1..TeamSize |-> player(i)],
         dire |-> [i \in 1..TeamSize |-> player(i + TeamSize)],
         picks |-> PicksOf(variant),
         ignoredSpells |-> [k \in 1..Len(IgnoredSpellIds) |->
                                [abilityId |-> IgnoredSpellIds[k]]]]

(***************************************************************************)
(* fixHeroSwaps                                                            *)
(***************************************************************************)
\* Array.prototype.findIndex(a => a < 0), 1-based; 0 is "not found" (-1)
HeroInnateIdx(abilities) ==
    IF \E k \in 1..Len(abilities) : abilities[k] < 0
    THEN CHOOSE k \in 1..Len(abilities) :
            /\ abilities[k] < 0
            /\ \A j \in 1..(k - 1) : abilities[j] >= 0
    ELSE 0

\* a find that takes the first other player, whatever the hero
SwapPartnerAnyHero(fp, i, innateHeroId) == IF i = 1 THEN 2 ELSE 1

\* fixedPlayers.find(p => p.hero === innateHeroId && p !== player): the
\* index of the first such player, 0 when find returns undefined
SwapPartner(fp, i, innateHeroId) ==
    LET hits == {j \in 1..Len(fp) : fp[j].hero = innateHeroId /\ j # i}
    IN  IF hits = {} THEN 0 ELSE CHOOSE j \in hits : \A h \in hits : j <= h

\* an iteration that copies the partner's list without giving its own
FixIterationOneWay(fp, i) ==
    LET player == fp[i]
        heroInnateIdx == HeroInnateIdx(player.abilities)
        innateHeroId == Abs(player.abilities[heroInnateIdx])
        swapPartner == SwapPartner(fp, i, innateHeroId)
    IN  IF heroInnateIdx = 0 THEN fp
        ELSE IF innateHeroId = player.hero THEN fp
        ELSE IF swapPartner = 0 THEN fp
        ELSE [fp EXCEPT ![i].abilities = fp[swapPartner].abilities]

\* an iteration that exchanges the hero innates of the two lists only
FixIterationInnateOnly(fp, i) ==
    LET player == fp[i]
        heroInnateIdx == HeroInnateIdx(player.abilities)
        innateHeroId == Abs(player.abilities[heroInnateIdx])
        swapPartner == SwapPartner(fp, i, innateHeroId)
        partnerIdx == HeroInnateIdx(fp[swapPartner].abilities)
    IN  IF heroInnateIdx = 0 THEN fp
        ELSE IF innateHeroId = player.hero THEN fp
        ELSE IF swapPartner = 0 THEN fp
        ELSE IF partnerIdx = 0 THEN fp
        ELSE [fp EXCEPT ![i].abilities[heroInnateIdx] = fp[swapPartner].abilities[partnerIdx],
                        ![swapPartner].abilities[partnerIdx] = player.abilities[heroInnateIdx]]

\* one iteration of the for loop, for index i
FixIteration(fp, i) ==
    LET player == fp[i]
        heroInnateIdx == HeroInnateIdx(player.abilities)
        innateHeroId == Abs(player.abilities[heroInnateIdx])
        swapPartner == SwapPartner(fp, i, innateHeroId)
    IN  IF heroInnateIdx = 0 THEN fp
        ELSE IF innateHeroId = player.hero THEN fp
        ELSE IF swapPartner = 0 THEN fp
        ELSE [fp EXCEPT ![i].abilities = fp[swapPartner].abilities,
                        ![swapPartner].abilities = player.abilities]

RECURSIVE FixLoop(_, _)
FixLoop(fp, i) ==
    IF i > Len(fp) THEN fp ELSE FixLoop(FixIteration(fp, i), i + 1)

\* the whole function, as the pair of lists it returns
fixHeroSwaps(radiant, dire) ==
    LET done == FixLoop(radiant \o dire, 1)
    IN  [radiant |-> SliceTo(done, TeamSize), dire |-> SliceFrom(done, TeamSize)]

(***************************************************************************)
(* Actions                                                                 *)
(***************************************************************************)
InitWith(cases, variants) ==
    /\ \E c \in cases, anomaly \in Anomalies, variant \in variants :
            matchData = MakeMatch(c, anomaly, variant)
    /\ phase = "loaded"
    /\ fixedPlayers = <<>>
    /\ fixI = 0
    /\ fixedRadiant = <<>>
    /\ fixedDire = <<>>
    /\ currentPick = 0
    /\ aggregateSortColumn = "default"
    /\ aggregateSortDirection = "asc"
    /\ synergyInput = <<>>
    /\ synergyOutput = <<>>

Init == InitWith(ReplayCases, PickVariants)

InitRepair == InitWith(AllCases, {"sorted"})

\* fixHeroSwaps is entered: allPlayers is copied into fixedPlayers
FixBegin ==
    /\ phase = "loaded"
    /\ phase' = "fixing"
    /\ fixedPlayers' = matchData.radiant \o matchData.dire
    /\ fixI' = 1
    /\ UNCHANGED <<matchData, fixedRadiant, fixedDire, currentPick>>
    /\ UNCHANGED <<aggregateSort, synergyCall>>

\* an iteration over the input's own player objects (no copy at entry): the
\* exchange of the abilities fields shows in the match payload
FixStepOnInput ==
    /\ phase = "fixing"
    /\ fixI <= Len(fixedPlayers)
    /\ fixedPlayers' = FixIteration(fixedPlayers, fixI)
    /\ matchData' = [matchData EXCEPT !.radiant = SliceTo(fixedPlayers', TeamSize),
                                      !.dire = SliceFrom(fixedPlayers', TeamSize)]
    /\ fixI' = fixI + 1
    /\ UNCHANGED <<phase, fixedRadiant, fixedDire, currentPick>>
    /\ UNCHANGED <<aggregateSort, synergyCall>>

\* one iteration of the loop over fixedPlayers
FixStep ==
    /\ phase = "fixing"
    /\ fixI <= Len(fixedPlayers)
    /\ fixedPlayers' = FixIteration(fixedPlayers, fixI)
    /\ fixI' = fixI + 1
    /\ UNCHANGED <<matchData, phase, fixedRadiant, fixedDire, currentPick>>
    /\ UNCHANGED <<aggregateSort, synergyCall>>

\* fixHeroSwaps returns; DraftReplay is mounted on the repaired lists
FixReturn ==
    /\ phase = "fixing"
    /\ fixI > Len(fixedPlayers)
    /\ fixedRadiant' = SliceTo(fixedPlayers, TeamSize)
    /\ fixedDire' = SliceFrom(fixedPlayers, TeamSize)
    /\ phase' = "replay"
    /\ currentPick' = 0
    /\ UNCHANGED <<matchData, fixedPlayers, fixI>>
    /\ UNCHANGED <<aggregateSort, synergyCall>>

picks == matchData.picks

\* the Start button
JumpToStart ==
    /\ phase = "replay"
    /\ currentPick # 0
    /\ currentPick' = 0
    /\ UNCHANGED <<matchData, phase, fixedPlayers, fixI, fixedRadiant, fixedDire>>
    /\ UNCHANGED <<aggregateSort, synergyCall>>

\* a Prev button that goes back two picks
RetreatTwoPicks ==
    /\ phase = "replay"
    /\ currentPick # 0
    /\ currentPick' = Max(0, currentPick - 2)
    /\ UNCHANGED <<matchData, phase, fixedPlayers, fixI, fixedRadiant, fixedDire>>
    /\ UNCHANGED <<aggregateSort, synergyCall>>

\* the Prev button
Retreat ==
    /\ phase = "replay"
    /\ currentPick # 0
    /\ currentPick' = Max(0, currentPick - 1)
    /\ UNCHANGED <<matchData, phase, fixedPlayers, fixI, fixedRadiant, fixedDire>>
    /\ UNCHANGED <<aggregateSort, synergyCall>>

\* the Next button
Advance ==
    /\ phase = "replay"
    /\ ~(currentPick >= Len(picks))
    /\ currentPick' = Min(Len(picks), currentPick + 1)
    /\ UNCHANGED <<matchData, phase, fixedPlayers, fixI, fixedRadiant, fixedDire>>
    /\ UNCHANGED <<aggregateSort, synergyCall>>

\* the End button
JumpToEnd ==
    /\ phase = "replay"
    /\ ~(currentPick >= Len(picks))
    /\ currentPick' = Len(picks)
    /\ UNCHANGED <<matchData, phase, fixedPlayers, fixI, fixedRadiant, fixedDire>>
    /\ UNCHANGED <<aggregateSort, synergyCall>>

\* the slider's onChange: setCurrentPick(Number(e.target.value))
Seek ==
    /\ phase = "replay"
    /\ \E k \in (0 - MaxSeekOvershoot)..(Len(picks) + MaxSeekOvershoot) :
            currentPick' = k
    /\ UNCHANGED <<matchData, phase, fixedPlayers, fixI, fixedRadiant, fixedDire>>
    /\ UNCHANGED <<aggregateSort, synergyCall>>

Next ==
    \/ FixBegin
    \/ FixStep
    \/ FixReturn
    \/ JumpToStart
    \/ Retreat
    \/ Advance
    \/ JumpToEnd
    \/ Seek

Spec == Init /\ [][Next]_vars

NextRepair ==
    \/ FixBegin
    \/ FixStep
    \/ FixReturn

SpecRepair == InitRepair /\ [][NextRepair]_vars

(***************************************************************************)
(* Matches whose pick list lacks the picks of some players                 *)
(***************************************************************************)
\* the players whose picks a payload may lack
MaxLackingPlayers == 4
LackingCandidates == SubSeq(<<1, 2, 6, 3, 7, 4>>, 1, MaxLackingPlayers)

\* the pick list without the picks of the players in lacking, in pick order
\* or in reverse
PicksWithout(lacking, reversed) ==
    LET gone == UNION {Range(BaseAbilities(i)) : i \in lacking}
        kept == SelectSeq(DraftSequence, LAMBDA a : a \notin gone)
        full == [k \in 1..Len(kept) |-> [abilityId |-> kept[k], pickOrder |-> k]]
    IN  IF reversed THEN [k \in 1..Len(full) |-> full[Len(full) + 1 - k]] ELSE full

InitDraftOrder ==
    /\ \E c \in ReplayCases, lacking \in SUBSET Range(LackingCandidates),
          reversed \in BOOLEAN :
            matchData = [MakeMatch(c, "none", "sorted") EXCEPT
                            !.picks = PicksWithout(lacking, reversed)]
    /\ phase = "loaded"
    /\ fixedPlayers = <<>>
    /\ fixI = 0
    /\ fixedRadiant = <<>>
    /\ fixedDire = <<>>
    /\ currentPick = 0
    /\ aggregateSortColumn = "default"
    /\ aggregateSortDirection = "asc"
    /\ synergyInput = <<>>
    /\ synergyOutput = <<>>

\* the page up to the mount of DraftReplay, where the draft order is computed
SpecDraftOrder == InitDraftOrder /\ [][NextRepair]_vars

(***************************************************************************)
(* Aggregate statistics the page fetches (the API responses)               *)
(***************************************************************************)
\* /ability-pairs: abilityIdOne, abilityIdTwo, numPicks, winrate
PairsResponse ==
    <<[abilityIdOne |-> 11, abilityIdTwo |-> 12, numPicks |-> 50, winrate |-> 600],
      [abilityIdOne |-> 14, abilityIdTwo |-> 11, numPicks |-> 4, winrate |-> 900],
      [abilityIdOne |-> 11, abilityIdTwo |-> 21, numPicks |-> 30, winrate |-> 580],
      [abilityIdOne |-> 21, abilityIdTwo |-> 111, numPicks |-> 20, winrate |-> 700],
      [abilityIdOne |-> 111, abilityIdTwo |-> 112, numPicks |-> 100, winrate |-> 640],
      [abilityIdOne |-> 112, abilityIdTwo |-> 114, numPicks |-> 5, winrate |-> 990],
      [abilityIdOne |-> 0 - 1, abilityIdTwo |-> 11, numPicks |-> 40, winrate |-> 620],
      [abilityIdOne |-> 0 - 2, abilityIdTwo |-> 0 - 1, numPicks |-> 15, winrate |-> 550],
      [abilityIdOne |-> 11, abilityIdTwo |-> 111, numPicks |-> 12, winrate |-> 500],
      [abilityIdOne |-> 12, abilityIdTwo |-> 111, numPicks |-> 25, winrate |-> 650],
      [abilityIdOne |-> 31, abilityIdTwo |-> 114, numPicks |-> 60, winrate |-> 660],
      [abilityIdOne |-> 52, abilityIdTwo |-> 64, numPicks |-> 30, winrate |-> 590],
      [abilityIdOne |-> 300, abilityIdTwo |-> 111, numPicks |-> 80, winrate |-> 800],
      [abilityIdOne |-> 12, abilityIdTwo |-> 11, numPicks |-> 50, winrate |-> 610],
      [abilityIdOne |-> 72, abilityIdTwo |-> 73, numPicks |-> 3, winrate |-> 950],
      [abilityIdOne |-> 0 - 3, abilityIdTwo |-> 31, numPicks |-> 20, winrate |-> 560],
      [abilityIdOne |-> 21, abilityIdTwo |-> 22, numPicks |-> 35, winrate |-> 610],
      [abilityIdOne |-> 21, abilityIdTwo |-> 23, numPicks |-> 45, winrate |-> 590],
      [abilityIdOne |-> 21, abilityIdTwo |-> 24, numPicks |-> 55, winrate |-> 560]>>

\* /abilities: abilityId, winrate
AbilityStats ==
    <<[abilityId |-> 11, winrate |-> 560], [abilityId |-> 12, winrate |-> 480],
      [abilityId |-> 14, winrate |-> 610], [abilityId |-> 21, winrate |-> 530],
      [abilityId |-> 24, winrate |-> 450], [abilityId |-> 0 - 1, winrate |-> 520],
      [abilityId |-> 0 - 2, winrate |-> 490], [abilityId |-> 111, winrate |-> 700],
      [abilityId |-> 114, winrate |-> 650], [abilityId |-> 31, winrate |-> 500],
      [abilityId |-> 52, winrate |-> 555], [abilityId |-> 64, winrate |-> 530],
      [abilityId |-> 300, winrate |-> 900], [abilityId |-> 205, winrate |-> 505]>>

\* /ability-shifts: the seven shifts of an ability, in hundredths
ShiftsResponse ==
    LET shift(id, k, d, ka, g, x, dm, h) ==
            [abilityId |-> id, killsShift |-> k, deathsShift |-> d,
             killAssistShift |-> ka, gpmShift |-> g, xpmShift |-> x,
             dmgShift |-> dm, healingShift |-> h]
    IN  <<shift(11, 120, 0 - 30, 200, 1500, 1800, 900, 0),
          shift(12, 0 - 40, 20, 10, 300, 0 - 200, 100, 700),
          shift(14, 300, 50, 420, 2500, 2600, 3000, 0),
          shift(0 - 1, 60, 0 - 10, 80, 4000, 1000, 500, 0),
          shift(21, 10, 10, 10, 10, 10, 10, 10),
          shift(61, 0 - 90, 0 - 80, 0 - 70, 0 - 60, 0 - 50, 0 - 40, 0 - 30),
          shift(64, 75, 15, 90, 800, 850, 1200, 300)>>

\* /ability-aghs: abilityId, totalGames and the totals of the two blocks
AghsResponse ==
    <<[abilityId |-> 11, totalGames |-> 100, scepterTotal |-> 30, shardTotal |-> 20],
      [abilityId |-> 14, totalGames |-> 200, scepterTotal |-> 50, shardTotal |-> 100],
      [abilityId |-> 12, totalGames |-> 0, scepterTotal |-> 0, shardTotal |-> 0],
      [abilityId |-> 0 - 1, totalGames |-> 100, scepterTotal |-> 40, shardTotal |-> 40],
      [abilityId |-> 205, totalGames |-> 100, scepterTotal |-> 10, shardTotal |-> 10],
      [abilityId |-> 13, totalGames |-> 50, scepterTotal |-> 10, shardTotal |-> 5],
      [abilityId |-> 21, totalGames |-> 100, scepterTotal |-> 25, shardTotal |-> 15]>>

(***************************************************************************)
(* The lookup maps of MatchPage                                            *)
(***************************************************************************)
\* a string of digits and dashes is a sequence of tokens: a dash, or the
\* number a run of digits reads as
Dash == 0 - 1

\* `${n}`
NumberToString(n) == IF n < 0 THEN <<Dash, 0 - n>> ELSE <<n>>

\* a key that keeps the ids in the order given
PairKeyAsGiven(a, b) == NumberToString(a) \o <<Dash>> \o NumberToString(b)

\* a < b ? `${a}-${b}` : `${b}-${a}`
PairKey(a, b) ==
    IF a < b THEN NumberToString(a) \o <<Dash>> \o NumberToString(b)
    ELSE NumberToString(b) \o <<Dash>> \o NumberToString(a)

\* key.split('-'): the pieces between the dashes; <<>> is the empty string
RECURSIVE SplitFrom(_, _)
SplitFrom(key, piece) ==
    IF key = <<>> THEN <<piece>>
    ELSE IF Head(key) = Dash THEN <<piece>> \o SplitFrom(Tail(key), <<>>)
    ELSE SplitFrom(Tail(key), piece \o <<Head(key)>>)

Split(key) == SplitFrom(key, <<>>)

\* parseInt(str, 10): <<>> is NaN
ParseInt(str) == IF Len(str) = 1 THEN <<str[1]>> ELSE <<>>

\* const [aStr, bStr] = key.split('-'); a = parseInt(aStr), b = parseInt(bStr)
ParsedKey(key) ==
    LET parts == Split(key)
    IN  [a |-> IF Len(parts) >= 1 THEN ParseInt(parts[1]) ELSE <<>>,
         b |-> IF Len(parts) >= 2 THEN ParseInt(parts[2]) ELSE <<>>]

\* Set.prototype.has for a parsed number: NaN is in no set of ids
Has(set, n) == n # <<>> /\ n[1] \in set

\* Map.prototype.set on a map kept as its entries in insertion order
MapSet(map, key, value) ==
    IF \E k \in 1..Len(map) : map[k].key = key
    THEN [k \in 1..Len(map) |->
            IF map[k].key = key THEN [key |-> key, value |-> value] ELSE map[k]]
    ELSE Append(map, [key |-> key, value |-> value])

\* Map.prototype.get: <<>> is undefined
MapGet(map, key) ==
    IF \E k \in 1..Len(map) : map[k].key = key
    THEN <<(CHOOSE e \in Range(map) : e.key = key).value>>
    ELSE <<>>

abilityPairs ==
    LET build[n \in 0..Len(PairsResponse)] ==
            IF n = 0 THEN <<>>
            ELSE LET pair == PairsResponse[n]
                 IN  MapSet(build[n - 1],
                            PairKey(pair.abilityIdOne, pair.abilityIdTwo),
                            [winrate |-> pair.winrate, numPicks |-> pair.numPicks])
    IN  build[Len(PairsResponse)]

abilityWinrates ==
    LET build[n \in 0..Len(AbilityStats)] ==
            IF n = 0 THEN <<>>
            ELSE MapSet(build[n - 1], AbilityStats[n].abilityId, AbilityStats[n].winrate)
    IN  build[Len(AbilityStats)]

abilityShifts ==
    LET build[n \in 0..Len(ShiftsResponse)] ==
            IF n = 0 THEN <<>>
            ELSE MapSet(build[n - 1], ShiftsResponse[n].abilityId, ShiftsResponse[n])
    IN  build[Len(ShiftsResponse)]

\* the pick rates are total / totalGames, in permille (the totals of
\* AghsResponse divide evenly)
abilityAghs ==
    LET build[n \in 0..Len(AghsResponse)] ==
            IF n = 0 THEN <<>>
            ELSE LET aghs == AghsResponse[n]
                 IN  IF aghs.totalGames > 0
                     THEN MapSet(build[n - 1], aghs.abilityId,
                            [scepterPickRate |-> (aghs.scepterTotal * 1000) \div aghs.totalGames,
                             shardPickRate |-> (aghs.shardTotal * 1000) \div aghs.totalGames])
                     ELSE build[n - 1]
    IN  build[Len(AghsResponse)]

\* abilityWinrates.get(id) ?? 0.5
WinrateOrDefault(id) ==
    LET wr == MapGet(abilityWinrates, id)
    IN  IF wr = <<>> THEN DefaultWinrate ELSE wr[1]

\* pair.winrate - (wrA + wrB) / 2, doubled
PairSynergy(pairWinrate, a, b) ==
    2 * pairWinrate - (WinrateOrDefault(a) + WinrateOrDefault(b))

(***************************************************************************)
(* DraftReplay: the derived views                                          *)
(***************************************************************************)
radiantPlayers == fixedRadiant
direPlayers == fixedDire

Sides == {"radiant", "dire"}

SidePlayers(side) == IF side = "radiant" THEN radiantPlayers ELSE direPlayers

\* the map abilityToPlayer, returned as playerAbilities: the dire players are
\* entered after the radiant ones and a later set() replaces an earlier one.
\* playerAbilities(id) is playerAbilities.get(id); <<>> is undefined
playerAbilities(id) ==
    LET has(side) == {i \in 1..Len(SidePlayers(side)) :
                        id \in Range(SidePlayers(side)[i].abilities)}
        last(S) == CHOOSE i \in S : \A j \in S : j <= i
    IN  IF has("dire") # {} THEN <<[playerIndex |-> last(has("dire")), side |-> "dire"]>>
        ELSE IF has("radiant") # {}
        THEN <<[playerIndex |-> last(has("radiant")), side |-> "radiant"]>>
        ELSE <<>>

\* picks.find(pk => pk.abilityId === id): <<>> is undefined
FindPick(id) ==
    IF \E k \in 1..Len(picks) : picks[k].abilityId = id
    THEN <<picks[CHOOSE k \in 1..Len(picks) :
                /\ picks[k].abilityId = id
                /\ \A j \in 1..(k - 1) : picks[j].abilityId # id]>>
    ELSE <<>>

\* a rank for the player without a matched pick that sorts first
InfinityBelowAll == 0 - Len(picks)

\* Infinity, as a rank: larger than every pickOrder of the match
Infinity ==
    1 + (IF Len(picks) = 0 THEN 0
         ELSE CHOOSE m \in {picks[k].pickOrder : k \in 1..Len(picks)} :
                \A k \in 1..Len(picks) : picks[k].pickOrder <= m)

\* firstPick of one player: the least pickOrder of the player's abilities
FirstPickOrder(player) ==
    LET orders == {FindPick(id)[1].pickOrder :
                    id \in {a \in Range(player.abilities) : FindPick(a) # <<>>}}
    IN  IF orders = {} THEN Infinity
        ELSE CHOOSE m \in orders : \A o \in orders : m <= o

\* radiantDraftOrder / direDraftOrder: the player indices sorted by first pick
DraftOrder(side) ==
    LET ps == SidePlayers(side)
    IN  SortAscBy([i \in 1..Len(ps) |-> i],
                  [i \in 1..Len(ps) |-> FirstPickOrder(ps[i])])

radiantDraftOrder == DraftOrder("radiant")
direDraftOrder == DraftOrder("dire")

\* a stepper that stops one pick short: picks.slice(0, currentPick - 1)
PicksSoFarOneShort == SliceTo(picks, currentPick - 1)

\* picks.slice(0, currentPick)
PicksSoFar == SliceTo(picks, currentPick)

\* a forEach that puts each new pick in front of the player's earlier ones
assignPicksNewestFirst(shown, side, playerIndex) ==
    LET mine == SelectSeq(shown,
                    LAMBDA pick : playerAbilities(pick.abilityId) =
                        <<[playerIndex |-> playerIndex, side |-> side]>>)
    IN  [k \in 1..Len(mine) |-> [id |-> mine[Len(mine) + 1 - k].abilityId,
                                 order |-> mine[Len(mine) + 1 - k].pickOrder]]

\* the forEach over the replayed picks, for one player: each pick whose
\* assignment is the player is pushed to the player's list
assignPicks(shown, side, playerIndex) ==
    LET mine == SelectSeq(shown,
                    LAMBDA pick : playerAbilities(pick.abilityId) =
                        <<[playerIndex |-> playerIndex, side |-> side]>>)
    IN  [k \in 1..Len(mine) |-> [id |-> mine[k].abilityId, order |-> mine[k].pickOrder]]

\* playerPickedAbilities.radiant[playerIndex] / .dire[playerIndex]
playerPickedAbilities(side, playerIndex) == assignPicks(PicksSoFar, side, playerIndex)

\* a picked set that lags one pick behind the stepper
pickedIdsOneBehind == {PicksSoFar[k].abilityId : k \in 1..(Len(PicksSoFar) - 1)}

\* pickedIds
pickedIds == {PicksSoFar[k].abilityId : k \in 1..Len(PicksSoFar)}

allPoolIds ==
    {picks[k].abilityId : k \in 1..Len(picks)}
        \cup {matchData.ignoredSpells[k].abilityId : k \in 1..Len(matchData.ignoredSpells)}

\* a draft order whose odd phases run forward like the even ones
getPickingInfoNoReverse(pickNum) ==
    LET pickIndex == pickNum - 1
        posInPhase == JsRem(pickIndex, 10)
    IN  IF pickNum = 0 THEN [team |-> "radiant", playerPos |-> 0]
        ELSE [team |-> IF JsRem(posInPhase, 2) = 0 THEN "radiant" ELSE "dire",
              playerPos |-> posInPhase \div 2]

\* getPickingInfo: the snake order
getPickingInfo(pickNum) ==
    LET pickIndex == pickNum - 1
        phaseNo == pickIndex \div 10
        posInPhase == JsRem(pickIndex, 10)
    IN  IF pickNum = 0 THEN [team |-> "radiant", playerPos |-> 0]
        ELSE IF JsRem(phaseNo, 2) = 0
        THEN [team |-> IF JsRem(posInPhase, 2) = 0 THEN "radiant" ELSE "dire",
              playerPos |-> posInPhase \div 2]
        ELSE [team |-> IF JsRem(posInPhase, 2) = 0 THEN "dire" ELSE "radiant",
              playerPos |-> 4 - (posInPhase \div 2)]

\* the picking info of the pick just made, not of the pick to come
pickingInfoOfLastPick ==
    IF currentPick < Len(picks) THEN <<getPickingInfo(currentPick)>> ELSE <<>>

\* pickingInfo: <<>> is null
pickingInfo ==
    IF currentPick < Len(picks) THEN <<getPickingInfo(currentPick + 1)>> ELSE <<>>

\* isPicking of the row at display position displayIdx (1-based) of a side
isPicking(side, displayIdx) ==
    /\ pickingInfo # <<>>
    /\ pickingInfo[1].team = side
    /\ pickingInfo[1].playerPos = displayIdx - 1

\* getNeededTypes
getNeededTypes == [spells |-> 3, ultimates |-> 1, heroes |-> 1]

\* ability?.isUltimate of getAbilityById(id)
IsUltimate(id) == getAbilityById(id) # <<>> /\ getAbilityById(id)[1].isUltimate

\* getAbilityType
getAbilityType(id) ==
    IF id < 0 THEN "hero" ELSE IF IsUltimate(id) THEN "ultimate" ELSE "spell"

\* type counts that take an ultimate for a spell
getPickedTypeCountsNoUltimates(pickedAbilities) ==
    LET n(test(_)) == Cardinality({k \in 1..Len(pickedAbilities) : test(pickedAbilities[k].id)})
    IN  [spells |-> n(LAMBDA id : ~(id < 0)),
         ultimates |-> 0,
         heroes |-> n(LAMBDA id : id < 0)]

\* getPickedTypeCounts
getPickedTypeCounts(pickedAbilities) ==
    LET n(test(_)) == Cardinality({k \in 1..Len(pickedAbilities) : test(pickedAbilities[k].id)})
    IN  [spells |-> n(LAMBDA id : ~(id < 0) /\ ~IsUltimate(id)),
         ultimates |-> n(LAMBDA id : ~(id < 0) /\ IsUltimate(id)),
         heroes |-> n(LAMBDA id : id < 0)]

\* remaining, as renderPlayerSlots, getPlayerSynergies and
\* getPlayerBestAbilities compute it
Remaining(pickedAbilities) ==
    LET needed == getNeededTypes
        picked == getPickedTypeCounts(pickedAbilities)
    IN  [spells |-> Max(0, needed.spells - picked.spells),
         ultimates |-> Max(0, needed.ultimates - picked.ultimates),
         heroes |-> Max(0, needed.heroes - picked.heroes)]

\* a filter that lets every type through
TypeAlwaysNeeded(id, remaining) == TRUE

\* the type filter of the two per-player suggestion lists
TypeStillNeeded(id, remaining) ==
    /\ ~(getAbilityType(id) = "spell" /\ remaining.spells = 0)
    /\ ~(getAbilityType(id) = "ultimate" /\ remaining.ultimates = 0)
    /\ ~(getAbilityType(id) = "hero" /\ remaining.heroes = 0)

\* the pairs both best-pairs lists start from: both abilities in the pool
\* and unpicked, and at least MinPairPicks picks
PairInPool(entry) ==
    LET ids == ParsedKey(entry.key)
    IN  /\ ~(~Has(allPoolIds, ids.a) \/ ~Has(allPoolIds, ids.b))
        /\ ~(Has(pickedIds, ids.a) \/ Has(pickedIds, ids.b))
        /\ ~(entry.value.numPicks < MinPairPicks)

PairRow(entry) ==
    LET ids == ParsedKey(entry.key)
    IN  [abilityA |-> ids.a[1], abilityB |-> ids.b[1],
         winrate |-> entry.value.winrate,
         synergy |-> PairSynergy(entry.value.winrate, ids.a[1], ids.b[1]),
         numPicks |-> entry.value.numPicks]

RankPairs(entries) ==
    SliceTo(SortDescBy([k \in 1..Len(entries) |-> PairRow(entries[k])],
                       [k \in 1..Len(entries) |-> entries[k].value.winrate]),
            TopListLength)

bestAvailablePairs == RankPairs(SelectSeq(abilityPairs, PairInPool))

\* getHeroIdForAbility: <<>> is null
getHeroIdForAbility(id) ==
    IF id < 0 THEN <<Abs(id)>>
    ELSE IF getAbilityById(id) = <<>> THEN <<>>
    ELSE <<getAbilityById(id)[1].ownerHeroId>>

PairOfDifferentHeroes(entry) ==
    LET ids == ParsedKey(entry.key)
        heroA == getHeroIdForAbility(ids.a[1])
        heroB == getHeroIdForAbility(ids.b[1])
    IN  /\ PairInPool(entry)
        /\ ~(heroA = <<>> \/ heroB = <<>>)
        /\ ~(heroA = heroB)

bestAvailablePairsDiffHeroes ==
    RankPairs(SelectSeq(abilityPairs, PairOfDifferentHeroes))

bestAvailableAbilities ==
    LET kept == SelectSeq(abilityWinrates,
                    LAMBDA e : ~(e.key \notin allPoolIds) /\ ~(e.key \in pickedIds))
    IN  SliceTo(SortDescBy([k \in 1..Len(kept) |-> [id |-> kept[k].key, winrate |-> kept[k].value]],
                           [k \in 1..Len(kept) |-> kept[k].value]),
                TopListLength)

\* getPlayerSynergies
getPlayerSynergies(side, playerIndex) ==
    LET pickedAbilities == playerPickedAbilities(side, playerIndex)
        remaining == Remaining(pickedAbilities)
        playerAbilityIds == {pickedAbilities[k].id : k \in 1..Len(pickedAbilities)}
        \* the body of abilityPairs.forEach for one entry
        visit(synergies, entry) ==
            LET ids == ParsedKey(entry.key)
                first == Has(playerAbilityIds, ids.a) /\ ~Has(pickedIds, ids.b)
                            /\ Has(allPoolIds, ids.b)
                second == Has(playerAbilityIds, ids.b) /\ ~Has(pickedIds, ids.a)
                            /\ Has(allPoolIds, ids.a)
                ownedId == IF first THEN ids.a ELSE IF second THEN ids.b ELSE <<>>
                poolId == IF first THEN ids.b ELSE IF second THEN ids.a ELSE <<>>
                synergy == PairSynergy(entry.value.winrate, ownedId[1], poolId[1])
                existing == {k \in 1..Len(synergies) : synergies[k].poolAbilityId = poolId[1]}
            IN  IF poolId = <<>> \/ poolId = <<0>> THEN synergies
                ELSE IF entry.value.numPicks < MinPairPicks THEN synergies
                ELSE IF ~TypeStillNeeded(poolId[1], remaining) THEN synergies
                ELSE IF existing # {}
                THEN [k \in 1..Len(synergies) |->
                        IF k \in existing /\ synergy > synergies[k].synergy
                        THEN [poolAbilityId |-> poolId[1],
                              winrate |-> entry.value.winrate, synergy |-> synergy]
                        ELSE synergies[k]]
                ELSE Append(synergies, [poolAbilityId |-> poolId[1],
                                        winrate |-> entry.value.winrate,
                                        synergy |-> synergy])
        all[n \in 0..Len(abilityPairs)] ==
            IF n = 0 THEN <<>> ELSE visit(all[n - 1], abilityPairs[n])
        positive == SelectSeq(all[Len(abilityPairs)], LAMBDA s : s.synergy > 0)
    IN  IF playerAbilityIds = {} THEN <<>>
        ELSE SortDescBy(positive, [k \in 1..Len(positive) |-> positive[k].synergy])

\* getPlayerBestAbilities
getPlayerBestAbilities(side, playerIndex) ==
    LET remaining == Remaining(playerPickedAbilities(side, playerIndex))
        valid == SelectSeq(abilityWinrates,
                    LAMBDA e : /\ ~(e.key \notin allPoolIds)
                               /\ ~(e.key \in pickedIds)
                               /\ TypeStillNeeded(e.key, remaining))
    IN  SortDescBy([k \in 1..Len(valid) |-> [id |-> valid[k].key, winrate |-> valid[k].value]],
                   [k \in 1..Len(valid) |-> valid[k].value])

\* the entries of a suggestion row
MaxSynergyShown == 3
SuggestionRowLength == 5

\* a row whose BEST entries are not checked against the SYN entries
renderPlayerSuggestionsUnfiltered(side, playerIndex) ==
    LET synergies == getPlayerSynergies(side, playerIndex)
        bestAbilities == getPlayerBestAbilities(side, playerIndex)
        synCount == Len(synergies)
        synToShow == IF synCount = 0 THEN 0 ELSE Min(synCount, MaxSynergyShown)
        bestToShow == SuggestionRowLength - synToShow
        filteredBest == SliceTo(bestAbilities, bestToShow)
    IN  [k \in 1..synToShow |-> [label |-> "SYN", id |-> synergies[k].poolAbilityId]]
        \o [k \in 1..Len(filteredBest) |-> [label |-> "BEST", id |-> filteredBest[k].id]]

\* renderPlayerSuggestions: the icons of the row, in order
renderPlayerSuggestions(side, playerIndex) ==
    LET synergies == getPlayerSynergies(side, playerIndex)
        bestAbilities == getPlayerBestAbilities(side, playerIndex)
        synCount == Len(synergies)
        synToShow == IF synCount = 0 THEN 0 ELSE Min(synCount, MaxSynergyShown)
        bestToShow == SuggestionRowLength - synToShow
        synAbilityIds == {synergies[k].poolAbilityId : k \in 1..synToShow}
        filteredBest == SliceTo(SelectSeq(bestAbilities, LAMBDA b : ~(b.id \in synAbilityIds)),
                                bestToShow)
    IN  [k \in 1..synToShow |-> [label |-> "SYN", id |-> synergies[k].poolAbilityId]]
        \o [k \in 1..Len(filteredBest) |-> [label |-> "BEST", id |-> filteredBest[k].id]]

\* the shortlists mostContended reads for one player
ShortlistLength == 5
HighestPriorityLength == 8

\* mostContended: the 'Highest Priority' list
mostContended ==
    LET idsOf(side, i) ==
            LET syn == SliceTo(getPlayerSynergies(side, i), ShortlistLength)
                best == SliceTo(getPlayerBestAbilities(side, i), ShortlistLength)
            IN  [k \in 1..Len(syn) |-> syn[k].poolAbilityId]
                \o [k \in 1..Len(best) |-> best[k].id]
        \* the ids in the order the forEach calls visit them
        ids == idsOf("radiant", 1) \o idsOf("dire", 1) \o idsOf("radiant", 2)
                \o idsOf("dire", 2) \o idsOf("radiant", 3) \o idsOf("dire", 3)
                \o idsOf("radiant", 4) \o idsOf("dire", 4) \o idsOf("radiant", 5)
                \o idsOf("dire", 5)
        \* counts: a key enters the Map at its first visit, and every visit
        \* adds 1 to its value
        firstVisits == {n \in 1..Len(ids) : \A m \in 1..(n - 1) : ids[m] # ids[n]}
        entries ==
            [k \in 1..Cardinality(firstVisits) |->
                LET n == CHOOSE v \in firstVisits :
                            Cardinality({m \in firstVisits : m < v}) = k - 1
                IN  [key |-> ids[n],
                     value |-> Cardinality({m \in 1..Len(ids) : ids[m] = ids[n]})]]
        sorted == SortDescBy(entries, [k \in 1..Len(entries) |-> entries[k].value])
        top == SliceTo(sorted, HighestPriorityLength)
    IN  [k \in 1..Len(top) |-> [id |-> top[k].key, count |-> top[k].value]]

\* PlayerCard: topPairs of one player
topPairs(player) ==
    LET allAbilities == player.abilities
        n == Len(allAbilities)
        \* the pairs (i, j), i < j, in the order of the two nested loops
        index == SelectSeq([k \in 1..(n * n) |-> [i |-> ((k - 1) \div n) + 1, j |-> ((k - 1) % n) + 1]],
                           LAMBDA x : x.i < x.j)
        found == SelectSeq(index,
                    LAMBDA x : MapGet(abilityPairs,
                                    PairKey(allAbilities[x.i], allAbilities[x.j])) # <<>>)
        row(x) ==
            LET a == allAbilities[x.i]
                b == allAbilities[x.j]
                pair == MapGet(abilityPairs, PairKey(a, b))[1]
            IN  [abilityA |-> a, abilityB |-> b, winrate |-> pair.winrate,
                 synergy |-> PairSynergy(pair.winrate, a, b)]
        pairs == [k \in 1..Len(found) |-> row(found[k])]
    IN  SliceTo(SortDescBy(pairs, [k \in 1..Len(pairs) |-> Abs(pairs[k].synergy)]),
                TopListLength)

\* sums that add the pickup rates of every ability with an Aghanim
\* statistic, flagged or not, known or not
computePlayerStatsUnflagged(abilityIds) ==
    LET shiftOf(id, field(_)) ==
            IF MapGet(abilityShifts, id) = <<>> THEN 0
            ELSE field(MapGet(abilityShifts, id)[1])
        aghsOf(id, field(_)) ==
            IF MapGet(abilityAghs, id) = <<>> THEN 0
            ELSE field(MapGet(abilityAghs, id)[1])
        sum(term(_)) ==
            LET acc[n \in 0..Len(abilityIds)] ==
                    IF n = 0 THEN 0 ELSE acc[n - 1] + term(abilityIds[n])
            IN  acc[Len(abilityIds)]
    IN  [killsShift |-> sum(LAMBDA id : shiftOf(id, LAMBDA s : s.killsShift)),
         deathsShift |-> sum(LAMBDA id : shiftOf(id, LAMBDA s : s.deathsShift)),
         killAssistShift |-> sum(LAMBDA id : shiftOf(id, LAMBDA s : s.killAssistShift)),
         gpmShift |-> sum(LAMBDA id : shiftOf(id, LAMBDA s : s.gpmShift)),
         xpmShift |-> sum(LAMBDA id : shiftOf(id, LAMBDA s : s.xpmShift)),
         dmgShift |-> sum(LAMBDA id : shiftOf(id, LAMBDA s : s.dmgShift)),
         healingShift |-> sum(LAMBDA id : shiftOf(id, LAMBDA s : s.healingShift)),
         expectedScepter |-> sum(LAMBDA id : aghsOf(id, LAMBDA g : g.scepterPickRate)),
         expectedShard |-> sum(LAMBDA id : aghsOf(id, LAMBDA g : g.shardPickRate))]

\* roleAnalysis: computePlayerStats
computePlayerStats(abilityIds) ==
    LET shiftOf(id, field(_)) ==
            IF MapGet(abilityShifts, id) = <<>> THEN 0
            ELSE field(MapGet(abilityShifts, id)[1])
        scepterOf(id) ==
            LET ability == IF id > 0 THEN getAbilityById(id) ELSE <<>>
                aghs == MapGet(abilityAghs, id)
            IN  IF aghs # <<>> /\ ability # <<>> /\ ability[1].hasScepter
                THEN aghs[1].scepterPickRate ELSE 0
        shardOf(id) ==
            LET ability == IF id > 0 THEN getAbilityById(id) ELSE <<>>
                aghs == MapGet(abilityAghs, id)
            IN  IF aghs # <<>> /\ ability # <<>> /\ ability[1].hasShard
                THEN aghs[1].shardPickRate ELSE 0
        sum(term(_)) ==
            LET acc[n \in 0..Len(abilityIds)] ==
                    IF n = 0 THEN 0 ELSE acc[n - 1] + term(abilityIds[n])
            IN  acc[Len(abilityIds)]
    IN  [killsShift |-> sum(LAMBDA id : shiftOf(id, LAMBDA s : s.killsShift)),
         deathsShift |-> sum(LAMBDA id : shiftOf(id, LAMBDA s : s.deathsShift)),
         killAssistShift |-> sum(LAMBDA id : shiftOf(id, LAMBDA s : s.killAssistShift)),
         gpmShift |-> sum(LAMBDA id : shiftOf(id, LAMBDA s : s.gpmShift)),
         xpmShift |-> sum(LAMBDA id : shiftOf(id, LAMBDA s : s.xpmShift)),
         dmgShift |-> sum(LAMBDA id : shiftOf(id, LAMBDA s : s.dmgShift)),
         healingShift |-> sum(LAMBDA id : shiftOf(id, LAMBDA s : s.healingShift)),
         expectedScepter |-> sum(scepterOf),
         expectedShard |-> sum(shardOf)]

\* rows taken from the final ability lists, whatever the step
roleAnalysisOfFinalDraft(side) ==
    LET order == DraftOrder(side)
        row(displayIdx) ==
            LET abilities == SidePlayers(side)[order[displayIdx]].abilities
            IN  [displayNum |-> displayIdx, abilities |-> abilities,
                 stats |-> computePlayerStats(abilities)]
    IN  [displayIdx \in 1..Len(order) |-> row(displayIdx)]

\* roleAnalysis.radiant / roleAnalysis.dire: one row per display position
roleAnalysis(side) ==
    LET order == DraftOrder(side)
        row(displayIdx) ==
            LET picked == playerPickedAbilities(side, order[displayIdx])
                abilities == [k \in 1..Len(picked) |-> picked[k].id]
            IN  [displayNum |-> displayIdx, abilities |-> abilities,
                 stats |-> computePlayerStats(abilities)]
    IN  [displayIdx \in 1..Len(order) |-> row(displayIdx)]

(***************************************************************************)
(* The aggregate table: ranges, gradient, sorting                          *)
(***************************************************************************)
\* the nine numeric columns of a row
StatColumns ==
    <<"killsShift", "deathsShift", "killAssistShift", "gpmShift", "xpmShift",
      "dmgShift", "healingShift", "expectedScepter", "expectedShard">>

\* the columns whose header calls handleAggregateSort
SortColumns == <<"default">> \o StatColumns

\* p[key] for a numeric key of a row
ColumnValue(row, column) ==
    CASE column = "killsShift" -> row.stats.killsShift
      [] column = "deathsShift" -> row.stats.deathsShift
      [] column = "killAssistShift" -> row.stats.killAssistShift
      [] column = "gpmShift" -> row.stats.gpmShift
      [] column = "xpmShift" -> row.stats.xpmShift
      [] column = "dmgShift" -> row.stats.dmgShift
      [] column = "healingShift" -> row.stats.healingShift
      [] column = "expectedScepter" -> row.stats.expectedScepter
      [] column = "expectedShard" -> row.stats.expectedShard

\* aggregateRanges: <<>> is null, otherwise the range of a column
aggregateRanges ==
    LET allPlayers == roleAnalysis("radiant") \o roleAnalysis("dire")
        getRange(key) ==
            LET values == {ColumnValue(allPlayers[k], key) : k \in 1..Len(allPlayers)}
            IN  [min |-> CHOOSE v \in values : \A w \in values : v <= w,
                 max |-> CHOOSE v \in values : \A w \in values : w <= v]
    IN  IF Len(allPlayers) = 0 THEN <<>>
        ELSE <<[column \in Range(StatColumns) |-> getRange(column)]>>

\* Math.round of the quotient n / d, d > 0
RoundDiv(n, d) == (2 * n + d) \div (2 * d)

\* a gradient cut off before the test of min against max
getAggregateGradientNoFlatTest(value, min, max, inverted) ==
    <<[r |-> 220, g |-> 220, b |-> 80, alpha |-> [num |-> 3, den |-> 10]]>>

\* getAggregateGradient: <<>> is {} (no colour override), otherwise the
\* rgba background. colorValue is c / d, the alpha is kept as a quotient
getAggregateGradient(value, min, max, inverted) ==
    LET d == max - min
        c == IF inverted THEN d - (value - min) ELSE value - min
    IN  IF min = max THEN <<>>
        \* distanceFromMid < 0.1; in doubles 0.6 - 0.5 and 0.5 - 0.4 are below 0.1
        ELSE IF 5 * Abs(2 * c - d) <= d THEN <<>>
        ELSE IF 2 * c < d
        THEN <<[r |-> 220, g |-> RoundDiv(80 * d + 280 * c, d), b |-> 80,
                alpha |-> [num |-> 3 * Abs(2 * c - d), den |-> 10 * d]]>>
        ELSE <<[r |-> RoundDiv(220 * d - 140 * (2 * c - d), d), g |-> 220, b |-> 80,
                alpha |-> [num |-> 3 * Abs(2 * c - d), den |-> 10 * d]]>>

\* the style of the cell of a row in a numeric column; ranges is the
\* memoised aggregateRanges
AggregateCellStyle(ranges, row, column) ==
    IF ranges # <<>>
    THEN getAggregateGradient(ColumnValue(row, column), ranges[1][column].min,
                              ranges[1][column].max, column = "deathsShift")
    ELSE <<>>

\* rows that stay in the order they were combined in
sortedAggregateDataUnsorted ==
    LET radiant == roleAnalysis("radiant")
        dire == roleAnalysis("dire")
    IN  [idx \in 1..Len(radiant) |->
            [row |-> radiant[idx], side |-> "radiant", defaultOrder |-> idx - 1]]
        \o [idx \in 1..Len(dire) |->
            [row |-> dire[idx], side |-> "dire", defaultOrder |-> (idx - 1) + TeamSize]]

\* sortedAggregateData
sortedAggregateData ==
    LET radiant == roleAnalysis("radiant")
        dire == roleAnalysis("dire")
        combined ==
            [idx \in 1..Len(radiant) |->
                [row |-> radiant[idx], side |-> "radiant", defaultOrder |-> idx - 1]]
            \o [idx \in 1..Len(dire) |->
                [row |-> dire[idx], side |-> "dire", defaultOrder |-> (idx - 1) + TeamSize]]
        defaultKeys == [k \in 1..Len(combined) |-> combined[k].defaultOrder]
        columnKeys == [k \in 1..Len(combined) |->
                            ColumnValue(combined[k].row, aggregateSortColumn)]
    IN  IF aggregateSortColumn = "default"
        THEN IF aggregateSortDirection = "asc" THEN SortAscBy(combined, defaultKeys)
             ELSE SortDescBy(combined, defaultKeys)
        ELSE IF aggregateSortDirection = "asc" THEN SortAscBy(combined, columnKeys)
             ELSE SortDescBy(combined, columnKeys)

\* a handler whose first click on a column sorts it ascending
HandleAggregateSortAscendingFirst ==
    /\ phase = "replay"
    /\ \E column \in Range(SortColumns) :
            IF aggregateSortColumn = column
            THEN /\ aggregateSortDirection' =
                        (IF aggregateSortDirection = "asc" THEN "desc" ELSE "asc")
                 /\ UNCHANGED aggregateSortColumn
            ELSE /\ aggregateSortColumn' = column
                 /\ aggregateSortDirection' = "asc"
    /\ UNCHANGED <<matchData, phase, fixedPlayers, fixI, fixedRadiant, fixedDire,
                   currentPick, synergyCall>>

\* handleAggregateSort(column): a click on a column header
HandleAggregateSort ==
    /\ phase = "replay"
    /\ \E column \in Range(SortColumns) :
            IF aggregateSortColumn = column
            THEN /\ aggregateSortDirection' =
                        (IF aggregateSortDirection = "asc" THEN "desc" ELSE "asc")
                 /\ UNCHANGED aggregateSortColumn
            ELSE /\ aggregateSortColumn' = column
                 /\ aggregateSortDirection' = "desc"
    /\ UNCHANGED <<matchData, phase, fixedPlayers, fixI, fixedRadiant, fixedDire,
                   currentPick, synergyCall>>

\* one match with a swap across the two sides, its picks in order
InitAggregate ==
    InitWith({[i \in Players |-> IF i = 5 THEN 6 ELSE IF i = 6 THEN 5 ELSE i]},
             {"sorted"})

\* the aggregate table under header clicks at every step of the draft
NextAggregate ==
    \/ FixBegin
    \/ FixStep
    \/ FixReturn
    \/ JumpToStart
    \/ Retreat
    \/ Advance
    \/ JumpToEnd
    \/ Seek
    \/ HandleAggregateSort

SpecAggregate == InitAggregate /\ [][NextAggregate]_vars

(***************************************************************************)
(* The match summary: calculateAbilitySynergy and calcTeamStats            *)
(***************************************************************************)
\* Math.log(n) in thousandths, rounded down, for n in 1..100
LogTable ==
    <<
      0, 693, 1098, 1386, 1609, 1791, 1945, 2079, 2197, 2302,
      2397, 2484, 2564, 2639, 2708, 2772, 2833, 2890, 2944, 2995,
      3044, 3091, 3135, 3178, 3218, 3258, 3295, 3332, 3367, 3401,
      3433, 3465, 3496, 3526, 3555, 3583, 3610, 3637, 3663, 3688,
      3713, 3737, 3761, 3784, 3806, 3828, 3850, 3871, 3891, 3912,
      3931, 3951, 3970, 3988, 4007, 4025, 4043, 4060, 4077, 4094,
      4110, 4127, 4143, 4158, 4174, 4189, 4204, 4219, 4234, 4248,
      4262, 4276, 4290, 4304, 4317, 4330, 4343, 4356, 4369, 4382,
      4394, 4406, 4418, 4430, 4442, 4454, 4465, 4477, 4488, 4499,
      4510, 4521, 4532, 4543, 4553, 4564, 4574, 4584, 4595, 4605>>

\* a weight that does not grow with the sample
MathLogFlat(n) == LogTable[MinPairPicks]

\* Math.log(pair.numPicks)
MathLog(n) == LogTable[n]

\* a synergy that does not leave the hero innates out
calculateAbilitySynergyAllIds(abilities, pairsMap, winrates) ==
    LET n == Len(abilities)
        wr(id) == IF MapGet(winrates, id) = <<>> THEN DefaultWinrate
                  ELSE MapGet(winrates, id)[1]
        index == SelectSeq([k \in 1..(n * n) |->
                                [i |-> ((k - 1) \div n) + 1, j |-> ((k - 1) % n) + 1]],
                           LAMBDA x : x.i < x.j)
        visit(acc, x) ==
            LET a == abilities[x.i]
                b == abilities[x.j]
                pair == MapGet(pairsMap, PairKey(a, b))
            IN  IF pair # <<>> /\ pair[1].numPicks >= MinPairPicks
                THEN [weightedSum |-> acc.weightedSum
                            + (2 * pair[1].winrate - (wr(a) + wr(b))) * MathLog(pair[1].numPicks),
                      totalWeight |-> acc.totalWeight + MathLog(pair[1].numPicks)]
                ELSE acc
        loop[k \in 0..Len(index)] ==
            IF k = 0 THEN [weightedSum |-> 0, totalWeight |-> 0]
            ELSE visit(loop[k - 1], index[k])
    IN  IF loop[Len(index)].totalWeight = 0 THEN <<>> ELSE <<loop[Len(index)]>>

\* calculateAbilitySynergy: <<>> is null, otherwise the quotient
\* weightedSum / totalWeight kept as its two terms
calculateAbilitySynergy(abilities, pairsMap, winrates) ==
    LET filteredAbilities == SelectSeq(abilities, LAMBDA id : id > 0)
        n == Len(filteredAbilities)
        wr(id) == IF MapGet(winrates, id) = <<>> THEN DefaultWinrate
                  ELSE MapGet(winrates, id)[1]
        \* the pairs (i, j), i < j, in the order of the two nested loops
        index == SelectSeq([k \in 1..(n * n) |->
                                [i |-> ((k - 1) \div n) + 1, j |-> ((k - 1) % n) + 1]],
                           LAMBDA x : x.i < x.j)
        visit(acc, x) ==
            LET a == filteredAbilities[x.i]
                b == filteredAbilities[x.j]
                pair == MapGet(pairsMap, PairKey(a, b))
            IN  IF pair # <<>> /\ pair[1].numPicks >= MinPairPicks
                THEN LET synergy == 2 * pair[1].winrate - (wr(a) + wr(b))
                         weight == MathLog(pair[1].numPicks)
                     IN  [weightedSum |-> acc.weightedSum + synergy * weight,
                          totalWeight |-> acc.totalWeight + weight]
                ELSE acc
        loop[k \in 0..Len(index)] ==
            IF k = 0 THEN [weightedSum |-> 0, totalWeight |-> 0]
            ELSE visit(loop[k - 1], index[k])
        total == loop[Len(index)]
    IN  IF total.totalWeight = 0 THEN <<>> ELSE <<total>>

\* calcTeamStats: avgSynergy. <<>> is null, otherwise totalSynergy /
\* synergyCount kept as the results that were added and their count
avgSynergy(players) ==
    LET results == [i \in 1..Len(players) |->
                        calculateAbilitySynergy(players[i].abilities, abilityPairs,
                                                abilityWinrates)]
        counted == SelectSeq(results, LAMBDA synergy : synergy # <<>>)
        synergyCount == Len(counted)
    IN  IF synergyCount > 0
        THEN <<[totalSynergy |-> [k \in 1..synergyCount |-> counted[k][1]],
                synergyCount |-> synergyCount]>>
        ELSE <<>>

\* teamStats.radiant / teamStats.dire
teamStats(side) == [avgSynergy |-> avgSynergy(SidePlayers(side))]

(***************************************************************************)
(* A call of calculateAbilitySynergy on arguments of its own               *)
(***************************************************************************)
\* what the pairs map may hold for one pair: nothing, or a statistic
PairSamples ==
    {<<>>,
     <<[winrate |-> 990, numPicks |-> 5]>>,
     <<[winrate |-> 400, numPicks |-> 10]>>,
     <<[winrate |-> 550, numPicks |-> 100]>>,
     <<[winrate |-> 600, numPicks |-> 50]>>}

SynergyAbilities == [k \in 1..MaxSynergyAbilities |-> k]

SynergyPairs ==
    {x \in (1..MaxSynergyAbilities) \X (1..MaxSynergyAbilities) : x[1] < x[2]}

\* the pairs map that holds the chosen statistics, in ascending key order
PairsMapOf(choice) ==
    LET n == MaxSynergyAbilities
        index == SelectSeq([k \in 1..(n * n) |-> <<((k - 1) \div n) + 1, ((k - 1) % n) + 1>>],
                           LAMBDA x : x[1] < x[2])
        build[k \in 0..Len(index)] ==
            IF k = 0 THEN <<>>
            ELSE IF choice[index[k]] = <<>> THEN build[k - 1]
            ELSE MapSet(build[k - 1], PairKey(index[k][1], index[k][2]), choice[index[k]][1])
    IN  build[Len(index)]

\* the winrate maps of a call: empty, or ability 1 at 0.56
WinrateMaps == {<<>>, MapSet(<<>>, 1, 560)}

InitSynergy ==
    /\ \E choice \in [SynergyPairs -> PairSamples], winrates \in WinrateMaps :
            synergyInput = [abilities |-> SynergyAbilities,
                            pairsMap |-> PairsMapOf(choice),
                            abilityWinrates |-> winrates]
    /\ synergyOutput = <<>>
    /\ phase = "call"
    /\ matchData = <<>>
    /\ fixedPlayers = <<>>
    /\ fixI = 0
    /\ fixedRadiant = <<>>
    /\ fixedDire = <<>>
    /\ currentPick = 0
    /\ aggregateSortColumn = "default"
    /\ aggregateSortDirection = "asc"

\* the call returns
CalculateAbilitySynergy ==
    /\ phase = "call"
    /\ synergyOutput = <<>>
    /\ synergyOutput' = <<calculateAbilitySynergy(synergyInput.abilities,
                                                  synergyInput.pairsMap,
                                                  synergyInput.abilityWinrates)>>
    /\ UNCHANGED <<matchData, phase, fixedPlayers, fixI, fixedRadiant, fixedDire,
                   currentPick, aggregateSort, synergyInput>>

NextSynergy == CalculateAbilitySynergy

SpecSynergy == InitSynergy /\ [][NextSynergy]_vars

(***************************************************************************)
(* Vocabulary of the properties                                            *)
(***************************************************************************)
NumPicks == Len(picks)

PickAbilityIds == {picks[k].abilityId : k \in 1..Len(picks)}

\* the ids a list of {id, order} entries holds
IdsOf(pickedAbilities) == {pickedAbilities[k].id : k \in 1..Len(pickedAbilities)}

\* the data-model invariants of a match: every ability of every player is in
\* the pick list, and no ability id is in two players' lists
DataModelInvariants ==
    /\ \A side \in Sides : \A i \in 1..Len(SidePlayers(side)) :
            Range(SidePlayers(side)[i].abilities) \subseteq PickAbilityIds
    /\ \A s1 \in Sides, s2 \in Sides :
        \A i \in 1..Len(SidePlayers(s1)), j \in 1..Len(SidePlayers(s2)) :
            (s1 # s2 \/ i # j) =>
                Range(SidePlayers(s1)[i].abilities)
                    \cap Range(SidePlayers(s2)[j].abilities) = {}

\* the pickOrder values are a permutation of 1..N
PickOrdersArePermutation ==
    /\ {picks[k].pickOrder : k \in 1..Len(picks)} = 1..Len(picks)
    /\ \A j \in 1..Len(picks), k \in 1..Len(picks) :
            picks[j].pickOrder = picks[k].pickOrder => j = k

\* the pick list is in ascending pickOrder
PicksAscending ==
    \A k \in 1..(Len(picks) - 1) : picks[k].pickOrder < picks[k + 1].pickOrder

(***************************************************************************)
(* C1                                                                      *)
(***************************************************************************)
\* C1: for a match that satisfies the data-model invariants, at step 0 every
\* one of the ten players has an empty assignment, and at step N every
\* player is assigned exactly the set of ids of the repaired final list.
C1_StepEnds ==
    (phase = "replay" /\ DataModelInvariants) =>
        /\ Len(radiantPlayers) = TeamSize /\ Len(direPlayers) = TeamSize
        /\ currentPick = 0 =>
            \A side \in Sides : \A i \in 1..TeamSize :
                playerPickedAbilities(side, i) = <<>>
        /\ currentPick = NumPicks =>
            \A side \in Sides : \A i \in 1..TeamSize :
                IdsOf(playerPickedAbilities(side, i))
                    = Range(SidePlayers(side)[i].abilities)

\* a repaired match, stepped to the end: radiant player 5 holds the five
\* abilities the swap had given to dire player 1
C1_Witness ==
    /\ phase = "replay" /\ DataModelInvariants
    /\ currentPick = NumPicks /\ NumPicks > 0
    /\ matchData.radiant[5].abilities # fixedRadiant[5].abilities
    /\ IdsOf(playerPickedAbilities("radiant", 5)) = Range(BaseAbilities(5))

(***************************************************************************)
(* C2                                                                      *)
(***************************************************************************)
\* C2: whenever the pickOrder values are a permutation of 1..N, in whatever
\* array order, at every step s in 0..N the abilities counted as picked
\* (pickedIds and the per-player assignments) are those with pickOrder <= s.
C2_PickedByPickOrder ==
    (phase = "replay" /\ PickOrdersArePermutation /\ currentPick \in 0..NumPicks) =>
        /\ pickedIds = {picks[k].abilityId :
                            k \in {j \in 1..Len(picks) : picks[j].pickOrder <= currentPick}}
        /\ \A side \in Sides : \A i \in 1..TeamSize :
             \A k \in 1..Len(playerPickedAbilities(side, i)) :
                playerPickedAbilities(side, i)[k].order <= currentPick

SnakeTable ==
    LET R(n) == [team |-> "radiant", playerPos |-> n - 1]
        D(n) == [team |-> "dire", playerPos |-> n - 1]
    IN  <<R(1), D(1), R(2), D(2), R(3), D(3), R(4), D(4), R(5), D(5),
          D(5), R(5), D(4), R(4), D(3), R(3), D(2), R(2), D(1), R(1)>>

\* the rule as the claim words it
SnakeRule(k) ==
    LET p == (k - 1) \div 10
        q == (k - 1) % 10
    IN  IF p % 2 = 0
        THEN [team |-> IF q % 2 = 0 THEN "radiant" ELSE "dire", playerPos |-> q \div 2]
        ELSE [team |-> IF q % 2 = 0 THEN "dire" ELSE "radiant", playerPos |-> 4 - (q \div 2)]

\* C4: getPickingInfo is defined on all of 0..N and follows the snake rule;
\* pick 0 and 1 map to (radiant, 0), 10 and 11 to (dire, 4), 20 to
\* (radiant, 0); the player on the clock at step s < N is the one of pick s+1.
C4_SnakeOrder ==
    phase = "replay" =>
        /\ getPickingInfo(0) = [team |-> "radiant", playerPos |-> 0]
        /\ \A k \in 1..NumPicks :
                /\ getPickingInfo(k) = SnakeRule(k)
                /\ getPickingInfo(k) = SnakeTable[((k - 1) % 20) + 1]
        /\ NumPicks >= 20 =>
                /\ getPickingInfo(1) = [team |-> "radiant", playerPos |-> 0]
                /\ getPickingInfo(10) = [team |-> "dire", playerPos |-> 4]
                /\ getPickingInfo(11) = [team |-> "dire", playerPos |-> 4]
                /\ getPickingInfo(20) = [team |-> "radiant", playerPos |-> 0]
        /\ currentPick \in 0..(NumPicks - 1) =>
                pickingInfo = <<SnakeRule(currentPick + 1)>>

\* pick 11, the start of the reverse phase, is on the clock
C4_Witness ==
    /\ phase = "replay"
    /\ currentPick = 10 /\ NumPicks >= 20
    /\ pickingInfo = <<[team |-> "dire", playerPos |-> 4]>>

(***************************************************************************)
(* C5, C6                                                                  *)
(***************************************************************************)
\* C5: fixHeroSwaps is idempotent: applied to its own output it returns the
\* same ability list for every player.
C5_Idempotent ==
    phase = "replay" =>
        fixHeroSwaps(fixedRadiant, fixedDire)
            = [radiant |-> fixedRadiant, dire |-> fixedDire]

NegativeEntries(abilities) == {k \in 1..Len(abilities) : abilities[k] < 0}

\* the input lists are a permutation of the correct lists: one negative
\* entry per list, ten distinct heroes, and the innate magnitudes are exactly
\* the ten hero ids
InputIsPermutationOfCorrectLists ==
    LET input == matchData.radiant \o matchData.dire
    IN  /\ \A i \in 1..Len(input) : Cardinality(NegativeEntries(input[i].abilities)) = 1
        /\ \A i \in 1..Len(input), j \in 1..Len(input) :
                input[i].hero = input[j].hero => i = j
        /\ {Abs(input[i].abilities[HeroInnateIdx(input[i].abilities)]) : i \in 1..Len(input)}
                = {input[i].hero : i \in 1..Len(input)}

\* C6: for such an input, after fixHeroSwaps every player's list has exactly
\* one negative entry and its magnitude is the player's hero id.
C6_InnateMatchesHero ==
    (phase = "replay" /\ InputIsPermutationOfCorrectLists) =>
        \A side \in Sides : \A i \in 1..Len(SidePlayers(side)) :
            LET player == SidePlayers(side)[i]
            IN  /\ Cardinality(NegativeEntries(player.abilities)) = 1
                /\ Abs(player.abilities[HeroInnateIdx(player.abilities)]) = player.hero

(***************************************************************************)
(* C7                                                                      *)
(***************************************************************************)
\* the pair statistic of two abilities holds fewer than MinPairPicks picks
BelowFloor(a, b) ==
    LET pair == MapGet(abilityPairs, PairKey(a, b))
    IN  pair # <<>> /\ pair[1].numPicks < MinPairPicks

\* C7: no pair with numPicks < 10 is in a ranked list of the match view:
\* the two best-pairs lists, the synergy suggestions of a player, and the
\* top-pairs list of a player card.
C7_NoLowSamplePair ==
    phase = "replay" =>
        /\ \A k \in 1..Len(bestAvailablePairs) :
                ~BelowFloor(bestAvailablePairs[k].abilityA, bestAvailablePairs[k].abilityB)
        /\ \A k \in 1..Len(bestAvailablePairsDiffHeroes) :
                ~BelowFloor(bestAvailablePairsDiffHeroes[k].abilityA,
                            bestAvailablePairsDiffHeroes[k].abilityB)
        /\ \A side \in Sides : \A i \in 1..TeamSize :
             LET synergies == getPlayerSynergies(side, i)
             IN  \A k \in 1..Len(synergies) :
                LET s == synergies[k]
                IN  \E owned \in IdsOf(playerPickedAbilities(side, i)) :
                        LET pair == MapGet(abilityPairs, PairKey(owned, s.poolAbilityId))
                        IN  /\ pair # <<>>
                            /\ pair[1].winrate = s.winrate
                            /\ pair[1].numPicks >= MinPairPicks
        /\ \A side \in Sides : \A i \in 1..Len(SidePlayers(side)) :
             LET top == topPairs(SidePlayers(side)[i])
             IN  \A k \in 1..Len(top) : ~BelowFloor(top[k].abilityA, top[k].abilityB)

(***************************************************************************)
(* C8                                                                      *)
(***************************************************************************)
\* the final list is 3 spells, 1 ultimate and 1 hero innate
StandardComposition(player) ==
    /\ Len(player.abilities) = 5
    /\ Cardinality({k \in 1..5 : player.abilities[k] < 0}) = 1
    /\ Cardinality({k \in 1..5 : player.abilities[k] > 0
                        /\ IsUltimate(player.abilities[k])}) = 1
    /\ Cardinality({k \in 1..5 : player.abilities[k] > 0
                        /\ ~IsUltimate(player.abilities[k])}) = 3

\* C8: for a player of standard composition, at every step the three
\* remaining counts are >= 0 and sum to 5 minus the number of abilities
\* assigned to the player.
C8_RemainingSlots ==
    phase = "replay" =>
        \A side \in Sides : \A i \in 1..TeamSize :
            StandardComposition(SidePlayers(side)[i]) =>
                LET picked == playerPickedAbilities(side, i)
                    remaining == Remaining(picked)
                IN  /\ remaining.spells >= 0
                    /\ remaining.ultimates >= 0
                    /\ remaining.heroes >= 0
                    /\ remaining.spells + remaining.ultimates + remaining.heroes
                            = 5 - Len(picked)

\* radiant player 1 after pick 21: a spell, the ultimate and the innate are
\* assigned, two spells are left
C8_Witness ==
    /\ phase = "replay"
    /\ StandardComposition(SidePlayers("radiant")[1])
    /\ Len(playerPickedAbilities("radiant", 1)) = 3
    /\ Remaining(playerPickedAbilities("radiant", 1))
            = [spells |-> 2, ultimates |-> 0, heroes |-> 0]

(***************************************************************************)
(* C9                                                                      *)
(***************************************************************************)
\* the abilities of the first s entries of the pick list
FirstPicks(s) == {picks[k].abilityId : k \in (1..s) \cap (1..Len(picks))}

\* the draft pool: picks plus ignored spells
DraftPool ==
    PickAbilityIds \cup Range([k \in 1..Len(matchData.ignoredSpells) |->
                                    matchData.ignoredSpells[k].abilityId])

\* every ability a suggestion list shows at the current step
AbilitiesOfPairs(rows) ==
    {rows[k].abilityA : k \in 1..Len(rows)} \cup {rows[k].abilityB : k \in 1..Len(rows)}

ListedAbilities ==
    UNION {
        AbilitiesOfPairs(bestAvailablePairs),
        AbilitiesOfPairs(bestAvailablePairsDiffHeroes),
        LET rows == bestAvailableAbilities
        IN  {rows[k].id : k \in 1..Len(rows)},
        UNION {LET rows == getPlayerSynergies(side, i)
               IN  {rows[k].poolAbilityId : k \in 1..Len(rows)} :
                        side \in Sides, i \in 1..TeamSize},
        UNION {LET rows == getPlayerBestAbilities(side, i)
               IN  {rows[k].id : k \in 1..Len(rows)} :
                        side \in Sides, i \in 1..TeamSize}}

\* C9: at every step no ability among the first s picks is in a suggestion
\* list (pairs of either variant, single abilities, a player's synergy
\* suggestions or best-abilities fallback), and every listed ability is in
\* the draft pool.
C9_OnlyUnpickedPoolAbilities ==
    phase = "replay" =>
        LET listed == ListedAbilities
        IN  /\ listed \cap FirstPicks(currentPick) = {}
            /\ listed \subseteq DraftPool

\* after three picks: ability 21 is picked, so the pair (11, 21) and the
\* single ability 21 are left out, while radiant player 2 is offered 111
C9_Witness ==
    /\ phase = "replay"
    /\ currentPick = 3
    /\ 21 \in FirstPicks(currentPick)
    /\ ~BelowFloor(11, 21) /\ MapGet(abilityPairs, PairKey(11, 21)) # <<>>
    /\ MapGet(abilityWinrates, 21) # <<>>
    /\ bestAvailablePairs # <<>>
    /\ \E k \in 1..Len(getPlayerSynergies("radiant", 2)) :
            getPlayerSynergies("radiant", 2)[k].poolAbilityId = 111

(***************************************************************************)
(* C10                                                                     *)
(***************************************************************************)
\* the player a row of the aggregate table stands for
RowPlayer(side, displayIdx) == SidePlayers(side)[DraftOrder(side)[displayIdx]]

AssignedAtStep(abilities, s) ==
    LET mine == SelectSeq(SubSeq(picks, 1, s), LAMBDA pick : pick.abilityId \in Range(abilities))
    IN  [k \in 1..Len(mine) |-> mine[k].abilityId]

\* the sum of a term over a list of ability ids
SumOver(ids, term(_)) ==
    LET upTo[n \in 0..Len(ids)] == IF n = 0 THEN 0 ELSE upTo[n - 1] + term(ids[n])
    IN  upTo[Len(ids)]

\* the shift data of one ability, 0 in every field where there is none
ShiftOrZero(id) ==
    IF \E k \in 1..Len(ShiftsResponse) : ShiftsResponse[k].abilityId = id
    THEN ShiftsResponse[CHOOSE k \in 1..Len(ShiftsResponse) : ShiftsResponse[k].abilityId = id]
    ELSE [abilityId |-> id, killsShift |-> 0, deathsShift |-> 0, killAssistShift |-> 0,
          gpmShift |-> 0, xpmShift |-> 0, dmgShift |-> 0, healingShift |-> 0]

\* the upgrade pickup rate of one ability: counted for a known ability that
\* has the upgrade and has games on record
UpgradeRate(id, upgrade) ==
    LET known == id > 0 /\ id \in KnownAbilityIds
        rows == {k \in 1..Len(AghsResponse) :
                    AghsResponse[k].abilityId = id /\ AghsResponse[k].totalGames > 0}
        aghs == AghsResponse[CHOOSE k \in rows : TRUE]
    IN  IF ~known \/ rows = {} THEN 0
        ELSE IF upgrade = "scepter"
        THEN IF getAbilityById(id)[1].hasScepter
             THEN (aghs.scepterTotal * 1000) \div aghs.totalGames ELSE 0
        ELSE IF getAbilityById(id)[1].hasShard
             THEN (aghs.shardTotal * 1000) \div aghs.totalGames ELSE 0

PairStat(a, b) == MapGet(abilityPairs, PairKey(a, b))

\* the pairs <<a, b>>, a < b, that qualify at the current step: both in the
\* pool, neither among the picks so far, a statistic of MinPairPicks or more
QualifyingPairs ==
    LET open == DraftPool \ FirstPicks(currentPick)
    IN  {p \in open \X open :
            /\ p[1] < p[2]
            /\ PairStat(p[1], p[2]) # <<>>
            /\ PairStat(p[1], p[2])[1].numPicks >= MinPairPicks}

\* the hero an ability originates from: h for the innate -h, the owner of a
\* known ability, <<>> when unknown
OriginHero(id) ==
    IF id < 0 THEN <<0 - id>>
    ELSE IF id \in KnownAbilityIds THEN <<getAbilityById(id)[1].ownerHeroId>>
    ELSE <<>>

QualifyingPairsDiffHeroes ==
    {p \in QualifyingPairs :
        /\ OriginHero(p[1]) # <<>> /\ OriginHero(p[2]) # <<>>
        /\ OriginHero(p[1]) # OriginHero(p[2])}

\* rows are the TopListLength best of the qualifying pairs, best first
IsTopOf(rows, qualifying) ==
    LET listed == {<<Min(rows[k].abilityA, rows[k].abilityB),
                     Max(rows[k].abilityA, rows[k].abilityB)>> : k \in 1..Len(rows)}
    IN  /\ listed \subseteq qualifying
        /\ Cardinality(listed) = Len(rows)
        /\ Len(rows) = Min(TopListLength, Cardinality(qualifying))
        /\ \A k \in 1..Len(rows) :
                rows[k].winrate = PairStat(rows[k].abilityA, rows[k].abilityB)[1].winrate
        /\ \A k \in 1..(Len(rows) - 1) : rows[k].winrate >= rows[k + 1].winrate
        /\ \A q \in qualifying \ listed : \A k \in 1..Len(rows) :
                PairStat(q[1], q[2])[1].winrate <= rows[k].winrate

\* C11: best available pairs is the 10 highest-winrate entries, best first,
\* of all pair statistics with numPicks >= 10 whose members are in the pool
\* and unpicked, pairs with a hero innate included; the different-heroes
\* variant is the same over the pairs of two different origin heroes, an
\* innate -h counting as hero h.
C11_BestPairsOfAllQualifying ==
    (phase = "replay" /\ currentPick \in 0..NumPicks) =>
        /\ IsTopOf(bestAvailablePairs, QualifyingPairs)
        /\ IsTopOf(bestAvailablePairsDiffHeroes, QualifyingPairsDiffHeroes)

(***************************************************************************)
(* C12                                                                     *)
(***************************************************************************)
\* the pairs of entries of an ability list, among the entries that pass
\* the test, that have a statistic of MinPairPicks picks or more
QualifyingPairsOf(abilities, counts(_)) ==
    {x \in (1..Len(abilities)) \X (1..Len(abilities)) :
        /\ x[1] < x[2]
        /\ counts(abilities[x[1]]) /\ counts(abilities[x[2]])
        /\ PairStat(abilities[x[1]], abilities[x[2]]) # <<>>
        /\ PairStat(abilities[x[1]], abilities[x[2]])[1].numPicks >= MinPairPicks}

\* the aggregate synergy of one player of the repaired match
PlayerSynergy(player) ==
    calculateAbilitySynergy(player.abilities, abilityPairs, abilityWinrates)

\* the team average is null exactly when every player's synergy is
TeamAverageNullIffAllNull ==
    \A side \in Sides :
        (teamStats(side).avgSynergy = <<>>)
            <=> (\A i \in 1..Len(SidePlayers(side)) :
                    PlayerSynergy(SidePlayers(side)[i]) = <<>>)

\* C12, as stated: the aggregate synergy of a player is null exactly when
\* no pair of abilities of the final ability set has a statistic with
\* numPicks >= 10, and the team average is null exactly when every
\* player's is.
C12_NullIffNoPairInFinalSet ==
    phase = "replay" =>
        /\ \A side \in Sides : \A i \in 1..Len(SidePlayers(side)) :
                LET player == SidePlayers(side)[i]
                IN  (PlayerSynergy(player) = <<>>)
                        <=> (QualifyingPairsOf(player.abilities, LAMBDA id : TRUE) = {})
        /\ TeamAverageNullIffAllNull

\* C12, amended: the aggregate synergy of a player is null exactly when no
\* pair of abilities with a positive id (the hero innates are left out) of
\* the final ability set has a statistic with numPicks >= 10, it is a
\* number otherwise, and the team average is null exactly when every
\* player's is.
C12_NullIffNoPositivePair ==
    phase = "replay" =>
        /\ \A side \in Sides : \A i \in 1..Len(SidePlayers(side)) :
                LET player == SidePlayers(side)[i]
                    synergy == PlayerSynergy(player)
                IN  /\ (synergy = <<>>)
                        <=> (QualifyingPairsOf(player.abilities, LAMBDA id : id > 0) = {})
                    /\ synergy # <<>> => synergy[1].totalWeight > 0
        /\ TeamAverageNullIffAllNull

\* radiant player 3 has only the pair of its innate and ability 31 and gets
\* null, radiant player 1 has the pair (11, 12) and gets a number; the
\* radiant average is a number and the dire average is null
C12_Witness ==
    /\ phase = "replay"
    /\ QualifyingPairsOf(fixedRadiant[3].abilities, LAMBDA id : TRUE) # {}
    /\ PlayerSynergy(fixedRadiant[3]) = <<>>
    /\ PlayerSynergy(fixedRadiant[1]) # <<>>
    /\ teamStats("radiant").avgSynergy # <<>>
    /\ teamStats("dire").avgSynergy = <<>>

(***************************************************************************)
(* C13                                                                     *)
(***************************************************************************)
\* the qualifying pairs of a call, each with its synergy (doubled permille)
\* and its number of picks
CallQualifying ==
    LET wr(id) == IF MapGet(synergyInput.abilityWinrates, id) = <<>> THEN DefaultWinrate
                  ELSE MapGet(synergyInput.abilityWinrates, id)[1]
        stat(x) == MapGet(synergyInput.pairsMap, PairKey(x[1], x[2]))
    IN  {[pair |-> x,
          synergy |-> 2 * stat(x)[1].winrate - (wr(x[1]) + wr(x[2])),
          numPicks |-> stat(x)[1].numPicks] :
            x \in {y \in SynergyPairs : stat(y) # <<>> /\ stat(y)[1].numPicks >= MinPairPicks}}

RECURSIVE SumOfSet(_)
SumOfSet(S) ==
    IF S = {} THEN 0
    ELSE LET x == CHOOSE y \in S : TRUE IN x.term + SumOfSet(S \ {x})

\* the example of the claim: a pair of 100 picks and synergy +0.05 and a
\* pair of 10 picks and synergy -0.10, and no other
CallIsTheExample ==
    /\ Cardinality(CallQualifying) = 2
    /\ {[synergy |-> q.synergy, numPicks |-> q.numPicks] : q \in CallQualifying}
            = {[synergy |-> 100, numPicks |-> 100], [synergy |-> 0 - 200, numPicks |-> 10]}

AllAbilityIds ==
    DraftPool
        \cup UNION {UNION {Range(SidePlayers(side)[i].abilities) :
                                i \in 1..Len(SidePlayers(side))} : side \in Sides}
        \cup {PairsResponse[k].abilityIdOne : k \in 1..Len(PairsResponse)}
        \cup {PairsResponse[k].abilityIdTwo : k \in 1..Len(PairsResponse)}

\* the score of the pair as the match summary and the player card compute
\* it for a list of the two abilities in the given order
ScoreOf(a, b) ==
    [stat |-> PairStat(a, b),
     summary |-> calculateAbilitySynergy(<<a, b>>, abilityPairs, abilityWinrates),
     card |-> LET top == topPairs([abilities |-> <<a, b>>])
              IN  [k \in 1..Len(top) |-> [winrate |-> top[k].winrate,
                                          synergy |-> top[k].synergy]]]

\* C14: for all ability ids a # b the pair (a, b) has the same statistic
\* and the same synergy as (b, a), and a statistic the response gives in
\* either order of the two ids is found.
C14_SynergySymmetric ==
    phase = "replay" =>
        /\ \A a \in AllAbilityIds, b \in AllAbilityIds :
                a < b => ScoreOf(a, b) = ScoreOf(b, a)
        /\ \A k \in 1..Len(PairsResponse) :
                /\ PairStat(PairsResponse[k].abilityIdOne, PairsResponse[k].abilityIdTwo) # <<>>
                /\ PairStat(PairsResponse[k].abilityIdTwo, PairsResponse[k].abilityIdOne) # <<>>

\* the response gives the pair as (14, 11) and as (12, 11): both are scored
\* under either order, the second with the statistic that came last
C14_Witness ==
    /\ phase = "replay"
    /\ \E k \in 1..Len(PairsResponse) :
            PairsResponse[k].abilityIdOne = 14 /\ PairsResponse[k].abilityIdTwo = 11
    /\ {11, 12, 14} \subseteq AllAbilityIds
    /\ ScoreOf(11, 14).stat # <<>> /\ ScoreOf(14, 11).card # <<>>
    /\ ScoreOf(12, 11).stat[1].winrate = 610
    /\ ScoreOf(11, 12).summary # <<>>

\* C15: in an aggregate column where all ten players' values are identical
\* (min = max) every cell gets no colour override from getAggregateGradient,
\* with the invert flag and without it
C15_FlatColumnHasNoColour ==
    phase = "replay" =>
        LET ranges == aggregateRanges
            rows == roleAnalysis("radiant") \o roleAnalysis("dire")
        IN  /\ ranges # <<>>
            /\ \A column \in Range(StatColumns) :
                    ranges[1][column].min = ranges[1][column].max =>
                        \A k \in 1..Len(rows) :
                            /\ ColumnValue(rows[k], column) = ranges[1][column].min
                            /\ AggregateCellStyle(ranges, rows[k], column) = <<>>
                            /\ \A inverted \in BOOLEAN :
                                    getAggregateGradient(ColumnValue(rows[k], column),
                                        ranges[1][column].min, ranges[1][column].max,
                                        inverted) = <<>>

\* a table with a flat column of a value other than 0 beside a column that is
\* coloured
C15_Witness ==
    /\ phase = "replay"
    /\ LET ranges == aggregateRanges
           rows == roleAnalysis("radiant") \o roleAnalysis("dire")
       IN  /\ \E column \in Range(StatColumns) :
                ranges[1][column].min = ranges[1][column].max
           /\ \E column \in Range(StatColumns), k \in 1..Len(rows) :
                AggregateCellStyle(ranges, rows[k], column) # <<>>

(***************************************************************************)
(* C16, C17                                                                *)
(***************************************************************************)
\* the rows of the aggregate table in the default order: the Radiant rows by
\* draft-order rank, then the Dire rows by draft-order rank
DefaultOrderRows ==
    LET radiant == roleAnalysis("radiant")
        dire == roleAnalysis("dire")
    IN  [k \in 1..Len(radiant) |-> [row |-> radiant[k], side |-> "radiant"]]
        \o [k \in 1..Len(dire) |-> [row |-> dire[k], side |-> "dire"]]

\* the rows the table shows, without the sort key the page adds to them
ShownRows ==
    LET shown == sortedAggregateData
    IN  [k \in 1..Len(shown) |-> [row |-> shown[k].row, side |-> shown[k].side]]

Reverse(s) == [k \in 1..Len(s) |-> s[Len(s) + 1 - k]]

\* C16, as stated: whenever the active sort column is the default '#' column
\* the rows are in the default order, the five Radiant rows by draft-order
\* rank ascending followed by the five Dire rows by draft-order rank ascending
C16_DefaultColumnDefaultOrder ==
    (phase = "replay" /\ aggregateSortColumn = "default") =>
        ShownRows = DefaultOrderRows

\* C16, amended: with the default '#' column active the rows are in the
\* default order while the direction is ascending (as on mount), and in the
\* exact reverse of the default order while the direction is descending (a
\* click on '#' toggles or resets the direction like on any other column)
C16_DefaultOrderByDirection ==
    (phase = "replay" /\ aggregateSortColumn = "default") =>
        LET shown == ShownRows
            default == DefaultOrderRows
        IN  /\ Len(default) = 2 * TeamSize
            /\ \A k \in 1..Len(default) :
                    /\ default[k].side = (IF k <= TeamSize THEN "radiant" ELSE "dire")
                    /\ default[k].row.displayNum = (IF k <= TeamSize THEN k ELSE k - TeamSize)
            /\ aggregateSortDirection = "asc" => shown = default
            /\ aggregateSortDirection = "desc" => shown = Reverse(default)

\* the finished draft with '#' active and descending: the table starts with
\* the last Dire row
C16_Witness ==
    /\ phase = "replay" /\ currentPick = NumPicks /\ NumPicks > 0
    /\ aggregateSortColumn = "default" /\ aggregateSortDirection = "desc"
    /\ sortedAggregateData[1].side = "dire"
    /\ sortedAggregateData[1].row.displayNum = TeamSize
    /\ sortedAggregateData[1].row.stats # sortedAggregateData[2 * TeamSize].row.stats

\* the rows are ordered by the active stat column in the selected direction
RowsOrderedByActiveColumn ==
    (phase = "replay" /\ aggregateSortColumn # "default") =>
        LET shown == sortedAggregateData
            default == DefaultOrderRows
            value(k) == ColumnValue(shown[k].row, aggregateSortColumn)
        IN  /\ aggregateSortColumn \in Range(StatColumns)
            /\ Len(shown) = Len(default)
            /\ \A d \in 1..Len(default) :
                    \E k \in 1..Len(shown) :
                        /\ shown[k].defaultOrder = d - 1
                        /\ shown[k].row = default[d].row
                        /\ shown[k].side = default[d].side
            /\ \A k \in 1..(Len(shown) - 1) :
                    IF aggregateSortDirection = "asc" THEN value(k) <= value(k + 1)
                    ELSE value(k) >= value(k + 1)

\* a change of the sort state is a click: on another column it makes that
\* column active and descending, on the active column it toggles the direction
ClickSemantics ==
    aggregateSort' # aggregateSort =>
        /\ aggregateSortColumn' \in Range(SortColumns)
        /\ aggregateSortColumn' # aggregateSortColumn => aggregateSortDirection' = "desc"
        /\ aggregateSortColumn' = aggregateSortColumn =>
                aggregateSortDirection' # aggregateSortDirection
        /\ aggregateSortDirection' \in {"asc", "desc"}
        /\ UNCHANGED <<matchData, phase, fixedPlayers, fixI, fixedRadiant, fixedDire,
                       currentPick, synergyCall>>

\* every column can be clicked in every state of the replay, to the state the
\* rule names
EveryClickAllowed ==
    phase = "replay" =>
        \A column \in Range(SortColumns) :
            ENABLED (/\ HandleAggregateSort
                     /\ aggregateSortColumn' = column
                     /\ aggregateSortDirection' =
                            (IF aggregateSortColumn # column THEN "desc"
                             ELSE IF aggregateSortDirection = "asc" THEN "desc"
                             ELSE "asc"))

\* C17: in the sort state machine (column, direction) a click on a column
\* other than the active one makes it active with direction descending, each
\* further click on the same column toggles the direction, and the rows are
\* ordered by the active column's numeric value in the selected direction
C17_SortStateMachine ==
    /\ [][ClickSemantics]_vars
    /\ [](EveryClickAllowed /\ RowsOrderedByActiveColumn)

\* the finished draft after two clicks on the GPM header: ascending, with
\* rows of different GPM sums
C17_Witness ==
    /\ phase = "replay" /\ currentPick = NumPicks
    /\ aggregateSortColumn = "gpmShift" /\ aggregateSortDirection = "asc"
    /\ LET shown == sortedAggregateData
       IN  /\ shown[1].row.stats.gpmShift < shown[2 * TeamSize].row.stats.gpmShift
           /\ \E k \in 1..(2 * TeamSize - 1) :
                shown[k].defaultOrder > shown[k + 1].defaultOrder

(***************************************************************************)
(* C18, C19                                                                *)
(***************************************************************************)
\* C18: fixHeroSwaps does not mutate its input: over every step of the call
\* the radiant and dire input lists, every input player and every input
\* abilities list keep their values and their order, also when the output
\* lists had abilities exchanged
C18_InputNotMutated ==
    [][/\ matchData'.radiant = matchData.radiant
       /\ matchData'.dire = matchData.dire
       /\ \A i \in 1..TeamSize :
            /\ matchData'.radiant[i].hero = matchData.radiant[i].hero
            /\ matchData'.radiant[i].abilities = matchData.radiant[i].abilities
            /\ matchData'.dire[i].hero = matchData.dire[i].hero
            /\ matchData'.dire[i].abilities = matchData.dire[i].abilities]_vars

\* the call has returned lists that differ from the input by an exchange
C18_Witness ==
    /\ phase = "replay"
    /\ fixedRadiant \o fixedDire # matchData.radiant \o matchData.dire
    /\ \E i, j \in 1..(2 * TeamSize) :
            /\ i # j
            /\ (fixedRadiant \o fixedDire)[i].abilities
                    = (matchData.radiant \o matchData.dire)[j].abilities
            /\ (fixedRadiant \o fixedDire)[j].abilities
                    = (matchData.radiant \o matchData.dire)[i].abilities
            /\ (fixedRadiant \o fixedDire)[i].abilities
                    # (matchData.radiant \o matchData.dire)[i].abilities

\* player i of fp holds a hero innate of another hero, and no other player
\* of fp has that hero
NoPartnerCase(fp, i) ==
    /\ i \in 1..Len(fp)
    /\ \E k \in 1..Len(fp[i].abilities) : fp[i].abilities[k] < 0
    /\ LET innate == fp[i].abilities[HeroInnateIdx(fp[i].abilities)]
       IN  /\ Abs(innate) # fp[i].hero
           /\ \A j \in 1..Len(fp) : j # i => fp[j].hero # Abs(innate)

\* C19: when a player's hero-innate magnitude differs from the player's hero
\* id and no other player has that hero id, fixHeroSwaps raises no error (the
\* iteration is taken and the loop goes on) and the iteration changes nothing:
\* this player's ability list and every other player's list stay as they were
C19_NoPartnerLeavesAllAsIs ==
    /\ []((phase = "fixing" /\ NoPartnerCase(fixedPlayers, fixI)) => ENABLED FixStep)
    /\ [][(phase = "fixing" /\ NoPartnerCase(fixedPlayers, fixI)) =>
            /\ phase' = "fixing"
            /\ fixI' = fixI + 1
            /\ fixedPlayers' = fixedPlayers
            /\ \A j \in 1..Len(fixedPlayers) :
                    fixedPlayers'[j].abilities = fixedPlayers[j].abilities]_vars

\* the call has returned, after exchanges for other players, with a player
\* whose innate belongs to a hero nobody has
C19_Witness ==
    /\ phase = "replay"
    /\ \E i \in 1..Len(fixedPlayers) : NoPartnerCase(fixedPlayers, i)
    /\ fixedPlayers # matchData.radiant \o matchData.dire

(***************************************************************************)
(* C20                                                                     *)
(***************************************************************************)
\* the seats (side, player index) that have the ability in the top 5 synergy
\* picks or in the top 5 overall picks
PlayersShortlisting(id) ==
    {seat \in Sides \X (1..TeamSize) :
        LET syn == SliceTo(getPlayerSynergies(seat[1], seat[2]), ShortlistLength)
            best == SliceTo(getPlayerBestAbilities(seat[1], seat[2]), ShortlistLength)
        IN  \/ \E k \in 1..Len(syn) : syn[k].poolAbilityId = id
            \/ \E k \in 1..Len(best) : best[k].id = id}

\* C20: in the 'Highest Priority' list the count of an ability is the number
\* of players (between 0 and 10) who have it in their top 5 synergy picks or
\* in their top 5 overall picks; the list shows at most 8 abilities in
\* descending count order
C20_CountIsNumberOfPlayers ==
    (phase = "replay" /\ currentPick \in 0..NumPicks) =>
        LET list == mostContended
        IN  /\ Len(list) <= HighestPriorityLength
            /\ \A k \in 1..(Len(list) - 1) : list[k].count >= list[k + 1].count
            /\ \A k \in 1..Len(list) :
                    /\ list[k].count \in 0..(2 * TeamSize)
                    /\ list[k].count = Cardinality(PlayersShortlisting(list[k].id))

(***************************************************************************)
(* C21                                                                     *)
(***************************************************************************)
\* the Aghanim statistic of an ability in the response, with games on record
AghsRows(id) ==
    {k \in 1..Len(AghsResponse) :
        AghsResponse[k].abilityId = id /\ AghsResponse[k].totalGames > 0}

\* what one ability adds to the Scepter sum and to the Shard sum
ScepterTerm(id) ==
    IF id > 0 /\ getAbilityById(id) # <<>> /\ AghsRows(id) # {}
        /\ getAbilityById(id)[1].hasScepter
    THEN LET aghs == AghsResponse[CHOOSE k \in AghsRows(id) : TRUE]
         IN  (aghs.scepterTotal * 1000) \div aghs.totalGames
    ELSE 0

ShardTerm(id) ==
    IF id > 0 /\ getAbilityById(id) # <<>> /\ AghsRows(id) # {}
        /\ getAbilityById(id)[1].hasShard
    THEN LET aghs == AghsResponse[CHOOSE k \in AghsRows(id) : TRUE]
         IN  (aghs.shardTotal * 1000) \div aghs.totalGames
    ELSE 0

\* C21: in each player row each of the seven shift sums is the sum over the
\* row's abilities of the ability's shift statistic (0 where there is none),
\* the Scepter sum adds scepterPickRate only for abilities flagged hasScepter
\* and the Shard sum adds shardPickRate only for abilities flagged hasShard;
\* an ability without the flag, a hero innate and an ability without an
\* Aghanim statistic add 0
C21_RowSums ==
    (phase = "replay" /\ currentPick \in 0..NumPicks) =>
        \A side \in Sides :
            LET rows == roleAnalysis(side)
            IN  \A displayIdx \in 1..Len(rows) :
                    LET ids == rows[displayIdx].abilities
                        stats == rows[displayIdx].stats
                    IN  /\ stats.killsShift = SumOver(ids, LAMBDA id : ShiftOrZero(id).killsShift)
                        /\ stats.deathsShift = SumOver(ids, LAMBDA id : ShiftOrZero(id).deathsShift)
                        /\ stats.killAssistShift
                                = SumOver(ids, LAMBDA id : ShiftOrZero(id).killAssistShift)
                        /\ stats.gpmShift = SumOver(ids, LAMBDA id : ShiftOrZero(id).gpmShift)
                        /\ stats.xpmShift = SumOver(ids, LAMBDA id : ShiftOrZero(id).xpmShift)
                        /\ stats.dmgShift = SumOver(ids, LAMBDA id : ShiftOrZero(id).dmgShift)
                        /\ stats.healingShift
                                = SumOver(ids, LAMBDA id : ShiftOrZero(id).healingShift)
                        /\ stats.expectedScepter = SumOver(ids, ScepterTerm)
                        /\ stats.expectedShard = SumOver(ids, ShardTerm)
                        /\ \A k \in 1..Len(ids) :
                            LET one == computePlayerStats(<<ids[k]>>)
                                flags == getAbilityById(ids[k])
                            IN  /\ (ids[k] < 0 \/ AghsRows(ids[k]) = {} \/ flags = <<>>) =>
                                        one.expectedScepter = 0 /\ one.expectedShard = 0
                                /\ (flags # <<>> /\ ~flags[1].hasScepter) =>
                                        one.expectedScepter = 0
                                /\ (flags # <<>> /\ ~flags[1].hasShard) =>
                                        one.expectedShard = 0

\* the finished draft: a row that holds a hero innate with an Aghanim
\* statistic, an ability with a statistic and no Shard flag, an ability with
\* both flags, and whose two sums are not 0
C21_Witness ==
    /\ phase = "replay" /\ currentPick = NumPicks /\ NumPicks > 0
    /\ \E side \in Sides :
        LET rows == roleAnalysis(side)
        IN  \E displayIdx \in 1..Len(rows) :
                LET ids == Range(rows[displayIdx].abilities)
                IN  /\ \E id \in ids : id < 0 /\ AghsRows(id) # {}
                    /\ \E id \in ids : /\ id > 0 /\ AghsRows(id) # {}
                                       /\ ~getAbilityById(id)[1].hasShard
                                       /\ getAbilityById(id)[1].hasScepter
                    /\ \E id \in ids : /\ id > 0 /\ AghsRows(id) # {}
                                       /\ getAbilityById(id)[1].hasShard
                    /\ rows[displayIdx].stats.expectedScepter > 0
                    /\ rows[displayIdx].stats.expectedShard > 0
                    /\ rows[displayIdx].stats.killsShift # 0

(***************************************************************************)
(* C22                                                                     *)
(***************************************************************************)
\* the magnitude of the hero innate of player i of fp, 0 where the list has
\* no hero innate
InnateMagnitude(fp, i) ==
    IF \E k \in 1..Len(fp[i].abilities) : fp[i].abilities[k] < 0
    THEN Abs(fp[i].abilities[HeroInnateIdx(fp[i].abilities)])
    ELSE 0

\* the other players of fp whose hero id is h
PlayersOfHero(fp, i, h) == {j \in 1..Len(fp) : j # i /\ fp[j].hero = h}

\* C22: when fixHeroSwaps processes a player X whose hero-innate magnitude h
\* differs from X.hero and another player P has hero id h, the full ability
\* lists of X and P are exchanged, P's innate then matches P's hero, and no
\* third player's list changes in that iteration; a player of hero 5 with
\* innate -7 is swapped with the player whose hero id is 7
C22_SwapExchangesLists ==
    [][(/\ phase = "fixing"
        /\ fixI \in 1..Len(fixedPlayers)
        /\ InnateMagnitude(fixedPlayers, fixI) # 0
        /\ InnateMagnitude(fixedPlayers, fixI) # fixedPlayers[fixI].hero
        /\ PlayersOfHero(fixedPlayers, fixI, InnateMagnitude(fixedPlayers, fixI)) # {}) =>
            LET h == InnateMagnitude(fixedPlayers, fixI)
                partners == PlayersOfHero(fixedPlayers, fixI, h)
            IN  \E P \in partners :
                    /\ fixedPlayers'[fixI].abilities = fixedPlayers[P].abilities
                    /\ fixedPlayers'[P].abilities = fixedPlayers[fixI].abilities
                    /\ InnateMagnitude(fixedPlayers', P) = fixedPlayers'[P].hero
                    /\ \A j \in 1..Len(fixedPlayers) :
                            /\ fixedPlayers'[j].hero = fixedPlayers[j].hero
                            /\ (j # fixI /\ j # P) =>
                                    fixedPlayers'[j].abilities = fixedPlayers[j].abilities
                    /\ (fixedPlayers[fixI].hero = 5 /\ h = 7) => fixedPlayers[P].hero = 7
                    /\ fixI' = fixI + 1]_vars

\* the example: the player of hero 5 came with the list of hero 7 (innate
\* -7) and has been processed; the two lists are exchanged
C22_Witness ==
    /\ phase = "fixing" /\ fixI = 6
    /\ (matchData.radiant \o matchData.dire)[5].hero = 5
    /\ (matchData.radiant \o matchData.dire)[5].abilities = BaseAbilities(7)
    /\ (matchData.radiant \o matchData.dire)[7].abilities = BaseAbilities(5)
    /\ fixedPlayers[5].abilities = BaseAbilities(5)
    /\ fixedPlayers[7].abilities = BaseAbilities(7)
    /\ fixedPlayers[7].hero = 7

(***************************************************************************)
(* C23                                                                     *)
(***************************************************************************)
\* the pickOrder values of the picks whose abilityId is in the player's
\* final ability list
MatchedOrders(player) ==
    {picks[k].pickOrder : k \in {j \in 1..Len(picks) :
                                    picks[j].abilityId \in Range(player.abilities)}}

LeastOf(S) == CHOOSE m \in S : \A o \in S : m <= o

\* C23: for each side the draft display order is a permutation of the five
\* player indices, ascending by each player's minimum pickOrder over the
\* picks whose abilityId is in the player's final ability list; a player
\* with no matched pick comes after every player that has one, also when
\* several players have none
C23_DraftOrderByFirstPick ==
    phase = "replay" =>
        \A side \in Sides :
            LET order == DraftOrder(side)
                ps == SidePlayers(side)
                matched(i) == MatchedOrders(ps[i])
            IN  /\ Len(order) = TeamSize
                /\ Range(order) = 1..TeamSize
                /\ \A k \in 1..TeamSize, l \in 1..TeamSize :
                    k < l =>
                        /\ matched(order[k]) = {} => matched(order[l]) = {}
                        /\ (matched(order[k]) # {} /\ matched(order[l]) # {}) =>
                                LeastOf(matched(order[k])) <= LeastOf(matched(order[l]))

\* a side with two players without a matched pick, behind three players
\* whose order is not the order of their indices
C23_Witness ==
    /\ phase = "replay"
    /\ \E side \in Sides :
        LET order == DraftOrder(side)
            ps == SidePlayers(side)
        IN  /\ MatchedOrders(ps[order[4]]) = {}
            /\ MatchedOrders(ps[order[5]]) = {}
            /\ MatchedOrders(ps[order[3]]) # {}
            /\ \E k \in 1..2 : order[k] > order[k + 1]

(***************************************************************************)
(* C24                                                                     *)
(***************************************************************************)
\* the abilities a player holds at the current step
OwnedIds(side, playerIndex) ==
    LET picked == playerPickedAbilities(side, playerIndex)
    IN  {picked[k].id : k \in 1..Len(picked)}

\* the synergies (doubled) a candidate has with the owned abilities it forms
\* a pair of MinPairPicks or more picks with
CandidateSynergies(owned, candidate) ==
    {PairSynergy(PairStat(o, candidate)[1].winrate, o, candidate) :
        o \in {x \in owned : /\ x # candidate
                             /\ PairStat(x, candidate) # <<>>
                             /\ PairStat(x, candidate)[1].numPicks >= MinPairPicks}}

GreatestOf(S) == CHOOSE m \in S : \A o \in S : o <= m

\* the property of C24 for the candidates in the set candidates
SynergyListIsBestPairs(candidates) ==
    \A side \in Sides, playerIndex \in 1..TeamSize :
        LET list == getPlayerSynergies(side, playerIndex)
            picked == playerPickedAbilities(side, playerIndex)
            owned == {picked[k].id : k \in 1..Len(picked)}
            remaining == Remaining(picked)
            listed == {list[k].poolAbilityId : k \in 1..Len(list)}
        IN  /\ owned = {} => list = <<>>
            /\ \A k \in 1..Len(list), l \in 1..Len(list) :
                    k < l => /\ list[k].poolAbilityId # list[l].poolAbilityId
                             /\ list[k].synergy >= list[l].synergy
            /\ \A k \in 1..Len(list) :
                    LET all == CandidateSynergies(owned, list[k].poolAbilityId)
                    IN  /\ list[k].poolAbilityId \in allPoolIds \ pickedIds
                        /\ list[k].synergy > 0
                        /\ all # {}
                        /\ list[k].synergy = GreatestOf(all)
            /\ \A c \in candidates \cap (allPoolIds \ pickedIds) :
                    LET all == CandidateSynergies(owned \cap candidates, c)
                    IN  (all # {} /\ GreatestOf(all) > 0 /\ TypeStillNeeded(c, remaining))
                            => c \in listed

\* C24: in a player's synergy suggestions every candidate pool ability
\* appears at most once, with the maximum synergy over the player's picked
\* abilities that form a pair of numPicks >= 10 with it; the candidates (of a
\* slot type the player still needs) whose maximum is strictly positive are
\* kept, and only those, in descending synergy order; a player with no picks
\* gets an empty list
C24_SynergySuggestions ==
    (phase = "replay" /\ currentPick \in 0..NumPicks) =>
        SynergyListIsBestPairs(allPoolIds)

\* the same with the hero innates left out of the owned abilities and of the
\* candidates on the completeness side
C24_AmongPositiveIds ==
    (phase = "replay" /\ currentPick \in 0..NumPicks) =>
        SynergyListIsBestPairs({c \in allPoolIds : c > 0})

(***************************************************************************)
(* C25                                                                     *)
(***************************************************************************)
\* negative id: hero innate; positive id with the ultimate flag: ultimate;
\* any other id: spell
SlotTypeOf(id) ==
    IF id < 0 THEN "hero"
    ELSE IF id \in KnownAbilityIds /\ getAbilityById(id)[1].isUltimate THEN "ultimate"
    ELSE "spell"

\* the slot types a player holding the abilities owned no longer needs
FilledTypes(owned) ==
    {type \in {"spell", "ultimate", "hero"} :
        Cardinality({id \in owned : SlotTypeOf(id) = type})
            >= (IF type = "spell" THEN 3 ELSE 1)}

\* C25: at every step neither the synergy suggestions nor the best-abilities
\* fallback of a player holds an ability of a slot type the player no longer
\* needs (no ultimate once 1 ultimate is held, no spell once 3 spells are
\* held, no hero innate once 1 is held); a player holding 3 spells, 1
\* ultimate and 1 innate gets two empty lists
C25_NoFilledSlotType ==
    (phase = "replay" /\ currentPick \in 0..NumPicks) =>
        \A side \in Sides, playerIndex \in 1..TeamSize :
            LET syn == getPlayerSynergies(side, playerIndex)
                best == getPlayerBestAbilities(side, playerIndex)
                filled == FilledTypes(OwnedIds(side, playerIndex))
            IN  /\ \A k \in 1..Len(syn) : SlotTypeOf(syn[k].poolAbilityId) \notin filled
                /\ \A k \in 1..Len(best) : SlotTypeOf(best[k].id) \notin filled
                /\ filled = {"spell", "ultimate", "hero"} => (syn = <<>> /\ best = <<>>)

\* a player who holds an ultimate and has both lists filled while an unpicked
\* ultimate of the pool has a winrate, and another player who holds a full
\* set while unpicked abilities with a winrate are left in the pool
C25_Witness ==
    /\ phase = "replay" /\ currentPick \in 0..NumPicks
    /\ \E id \in allPoolIds \ pickedIds :
            SlotTypeOf(id) = "ultimate" /\ MapGet(abilityWinrates, id) # <<>>
    /\ \E side \in Sides, playerIndex \in 1..TeamSize :
            /\ "ultimate" \in FilledTypes(OwnedIds(side, playerIndex))
            /\ getPlayerSynergies(side, playerIndex) # <<>>
            /\ getPlayerBestAbilities(side, playerIndex) # <<>>
    /\ \E side \in Sides, playerIndex \in 1..TeamSize :
            FilledTypes(OwnedIds(side, playerIndex)) = {"spell", "ultimate", "hero"}

(***************************************************************************)
(* C26                                                                     *)
(***************************************************************************)
\* the entries of list from which the ids in seen are left out, in order
WithoutIds(list, seen) == SelectSeq(list, LAMBDA e : e.id \notin seen)

ViewInputs == <<matchData, fixedRadiant, fixedDire>>

\* the number of abilities of a type among ids
HeldOfType(ids, type) == Cardinality({k \in 1..Len(ids) : SlotTypeOf(ids[k]) = type})

\* the per-player assignments, the remaining-slot counts and the picked set
\* are what the first s picks of the payload give, for s = currentPick
ViewIsFunctionOfStep ==
    (phase = "replay" /\ DataModelInvariants /\ currentPick \in 0..NumPicks) =>
        /\ pickedIds = FirstPicks(currentPick)
        /\ \A side \in Sides, i \in 1..TeamSize :
            LET picked == playerPickedAbilities(side, i)
                assigned == AssignedAtStep(SidePlayers(side)[i].abilities, currentPick)
                remaining == Remaining(picked)
            IN  /\ [k \in 1..Len(picked) |-> picked[k].id] = assigned
                /\ remaining.spells = Max(0, 3 - HeldOfType(assigned, "spell"))
                /\ remaining.ultimates = Max(0, 1 - HeldOfType(assigned, "ultimate"))
                /\ remaining.heroes = Max(0, 1 - HeldOfType(assigned, "hero"))

\* C27: the derived draft view is path-independent. The transitions of the
\* replay change nothing but the step pointer, so the assignments, the
\* remaining-slot counts, the picked set and the suggestion lists at step s
\* are functions of the payload and s; advance from s < N leads to s + 1 and
\* retreat from s > 0 leads to s - 1, both are possible there, so that
\* advance then retreat, and retreat then advance, come back to the same
\* step with the same view
C27_PathIndependentView ==
    /\ [][phase = "replay" => UNCHANGED <<ViewInputs, phase>>]_vars
    /\ [][(Advance /\ currentPick \in 0..(NumPicks - 1)) =>
                currentPick' = currentPick + 1]_vars
    /\ [][(Retreat /\ currentPick \in 1..NumPicks) =>
                currentPick' = currentPick - 1]_vars
    /\ []((phase = "replay" /\ currentPick \in 0..(NumPicks - 1)) => ENABLED Advance)
    /\ []((phase = "replay" /\ currentPick \in 1..NumPicks) => ENABLED Retreat)
    /\ []ViewIsFunctionOfStep

\* the middle of a draft: both Advance and Retreat are possible, and the
\* view has assignments and suggestions to show
C27_Witness ==
    /\ phase = "replay" /\ DataModelInvariants
    /\ currentPick = 12 /\ NumPicks > 12
    /\ ENABLED Advance /\ ENABLED Retreat
    /\ playerPickedAbilities("radiant", 1) # <<>>
    /\ \E side \in Sides, i \in 1..TeamSize : getPlayerSynergies(side, i) # <<>>

(***************************************************************************)
(* C28                                                                     *)
(***************************************************************************)
\* the player (side, index) who made the pick numbered k: the owner of the
\* ability of the pick whose pickOrder is k; <<>> where there is none
MakerOfPick(k) ==
    LET hits == {j \in 1..Len(picks) : picks[j].pickOrder = k}
    IN  IF hits = {} THEN <<>>
        ELSE playerAbilities(picks[CHOOSE j \in hits : TRUE].abilityId)

\* the picks follow the snake protocol: the picks are numbered 1..N, N <= 50,
\* pick k was made by the team getPickingInfo(k) names, and within a team
\* two picks have the same maker exactly when they have the same seat
FollowsSnakeProtocol ==
    /\ NumPicks <= 50
    /\ {picks[j].pickOrder : j \in 1..Len(picks)} = 1..NumPicks
    /\ \A k \in 1..NumPicks :
            /\ MakerOfPick(k) # <<>>
            /\ MakerOfPick(k)[1].side = getPickingInfo(k).team
    /\ \A k \in 1..NumPicks, l \in 1..NumPicks :
            getPickingInfo(k).team = getPickingInfo(l).team =>
                ((MakerOfPick(k) = MakerOfPick(l))
                    <=> (getPickingInfo(k).playerPos = getPickingInfo(l).playerPos))

\* the rows highlighted as on the clock
HighlightedRows ==
    {row \in Sides \X (1..TeamSize) : isPicking(row[1], row[2])}

\* C28: for a match of N <= 50 picks that follow the snake protocol, at
\* every step s < N exactly one player row is highlighted as on the clock,
\* the row of the player who makes pick s + 1 (team and first-pick display
\* rank of getPickingInfo(s + 1)); at step s = N no row is highlighted
C28_OnTheClock ==
    (phase = "replay" /\ currentPick \in 0..NumPicks /\ FollowsSnakeProtocol) =>
        LET rows == HighlightedRows
        IN  /\ currentPick = NumPicks => rows = {}
            /\ currentPick < NumPicks =>
                /\ Cardinality(rows) = 1
                /\ \A row \in rows :
                    /\ row[1] = getPickingInfo(currentPick + 1).team
                    /\ row[2] - 1 = getPickingInfo(currentPick + 1).playerPos
                    /\ MakerOfPick(currentPick + 1) =
                        <<[playerIndex |-> DraftOrder(row[1])[row[2]], side |-> row[1]]>>

\* a step of a reverse phase of a protocol-following match whose display
\* order is not the order of the player indices, with a row highlighted
C28_Witness ==
    /\ phase = "replay" /\ FollowsSnakeProtocol
    /\ currentPick = 13 /\ NumPicks = 50
    /\ HighlightedRows = {<<"radiant", 4>>}
    /\ \E side \in Sides : DraftOrder(side) # <<1, 2, 3, 4, 5>>

(***************************************************************************)
(* C29                                                                     *)
(***************************************************************************)
\* the number of players of a list of players who hold the ability list l
HoldersOf(players, l) == Cardinality({j \in 1..Len(players) : players[j].abilities = l})

\* C29: fixHeroSwaps only permutes ability lists: the multiset of the ten
\* output ability lists is the multiset of the ten input lists (each list
\* whole, in its element order), every output player keeps its position,
\* side and hero id, and the output has the first five players as radiant and
\* the rest as dire
C29_OnlyPermutesLists ==
    LET input == matchData.radiant \o matchData.dire
        permuted(players) ==
            /\ Len(players) = Len(input)
            /\ \A i \in 1..Len(input) :
                /\ players[i].hero = input[i].hero
                /\ DOMAIN players[i] = DOMAIN input[i]
                /\ HoldersOf(players, input[i].abilities) = HoldersOf(input, input[i].abilities)
                /\ HoldersOf(players, players[i].abilities) = HoldersOf(input, players[i].abilities)
    IN  /\ phase = "fixing" => permuted(fixedPlayers)
        /\ phase = "replay" =>
            /\ permuted(fixedRadiant \o fixedDire)
            /\ Len(fixedRadiant) = TeamSize
            /\ Len(fixedDire) = Len(input) - TeamSize
            /\ \A i \in 1..TeamSize : fixedRadiant[i].hero = matchData.radiant[i].hero
            /\ \A i \in 1..Len(fixedDire) : fixedDire[i].hero = matchData.dire[i].hero

\* the call has returned with the lists of at least three players moved, one
\* of them across the two sides
C29_Witness ==
    /\ phase = "replay"
    /\ Cardinality({i \in 1..TeamSize :
                        fixedRadiant[i].abilities # matchData.radiant[i].abilities})
        + Cardinality({i \in 1..TeamSize :
                        fixedDire[i].abilities # matchData.dire[i].abilities}) >= 3
    /\ \E i \in 1..TeamSize, j \in 1..TeamSize :
            fixedRadiant[i].abilities = matchData.dire[j].abilities

(***************************************************************************)
(* C30                                                                     *)
(***************************************************************************)
\* the ten rows of abilities assigned at the current step, radiant first
AssignedRows ==
    [n \in 1..(2 * TeamSize) |->
        (IF n <= TeamSize THEN playerPickedAbilities("radiant", n)
         ELSE playerPickedAbilities("dire", n - TeamSize)) \o <<>>] \o <<>>

\* the final ability lists of the ten players, radiant first
FinalLists == [n \in 1..(2 * TeamSize) |-> (radiantPlayers \o direPlayers)[n].abilities]

TotalAssigned(rows) ==
    LET upTo[n \in 0..Len(rows)] == IF n = 0 THEN 0 ELSE upTo[n - 1] + Len(rows[n])
    IN  upTo[Len(rows)]

IsPrefixOf(s, t) == Len(s) <= Len(t) /\ SubSeq(t, 1, Len(s)) = s

\* at one step: an ability is in one row at most, every row holds abilities
\* of its player's final list only, and the rows hold at most currentPick
\* abilities together
AssignmentAtStep ==
    LET rows == AssignedRows
        final == FinalLists \o <<>>
    IN  /\ \A n \in 1..Len(rows), m \in 1..Len(rows) :
            n # m => {rows[n][k].id : k \in 1..Len(rows[n])}
                        \cap {rows[m][k].id : k \in 1..Len(rows[m])} = {}
        /\ \A n \in 1..Len(rows) : \A k \in 1..Len(rows[n]) :
            /\ rows[n][k].id \in Range(final[n])
            /\ \E j \in 1..currentPick : PicksSoFar[j].abilityId = rows[n][k].id
        /\ TotalAssigned(rows) <= currentPick

\* the ten rows the forEach yields at step s
RowsAtStep(s) ==
    [n \in 1..(2 * TeamSize) |->
        (IF n <= TeamSize THEN assignPicks(SliceTo(picks, s), "radiant", n)
         ELSE assignPicks(SliceTo(picks, s), "dire", n - TeamSize)) \o <<>>] \o <<>>

\* from step s to step s + 1: every row at s is a prefix of the row at s + 1
\* and the ten rows grow by one ability at most together
AssignmentGrows ==
    LET before == RowsAtStep(currentPick - 1)
        after == AssignedRows
    IN  /\ \A n \in 1..Len(before) : IsPrefixOf(before[n], after[n])
        /\ TotalAssigned(after) - TotalAssigned(before) \in {0, 1}

\* C30: for every step s in 0..N-1 and every player the abilities assigned at
\* step s are a prefix of those assigned at step s + 1, and the two steps
\* differ by one ability at most over the ten players; at every step a picked
\* ability is assigned to one player at most, every assigned ability is in
\* that player's final list, and at most s abilities are assigned
C30_AssignmentMonotone ==
    phase = "replay" =>
        /\ currentPick \in 1..NumPicks => AssignmentGrows
        /\ currentPick \in 0..NumPicks => AssignmentAtStep

\* the replay of a repaired match has gone past the first round, a player has
\* two abilities assigned, and a pick of the replayed part is assigned to no
\* one
C30_Witness ==
    /\ phase = "replay"
    /\ currentPick > 2 * TeamSize
    /\ fixedRadiant # matchData.radiant
    /\ \E n \in 1..(2 * TeamSize) : Len(AssignedRows[n]) >= 2
    /\ TotalAssigned(AssignedRows) < currentPick
====
